---- MODULE Spec2Model ----
(***************************************************************************)
(* Model of the cursor-docs-crawler: the URL frontier (URLManager), the    *)
(* crawl loop (SeleniumCrawler.crawl_all) and the document assembler's     *)
(* page de-duplication (PDFGenerator._deduplicate_pages).                  *)
(*                                                                         *)
(* A URL is the record urlparse gives for its text: scheme, netloc, path,  *)
(* query and fragment.  The path is the sequence of its "/" separators and *)
(* segment names, a trailing file extension being a token of its own, so   *)
(* that endswith(ext), "'/api/' in path", rstrip('/') and len(path) > 1    *)
(* are computed on the path as the code computes them on the string.       *)
(* Optional[int] / Optional[str] values are sets: {} is None, {v} is v.    *)
(***************************************************************************)
EXTENDS Integers, Sequences, FiniteSets, TLC

VARIABLES url_manager, call, ret, accepted, returned, nops,
          pc, site, url, crawled_pages, fetch_log,
          pages, deduped,
          config, delays, gen, ex, so, mn, rec, dom

\* the state of generate_pdf, of the extract-all loop, of the page sorter and of main
pipeline == <<gen, ex, so, mn>>

\* the state of the error-recovery helpers and of the content parser's clean-up
utilities == <<rec, dom>>

vars == <<url_manager, call, ret, accepted, returned, nops,
          pc, site, url, crawled_pages, fetch_log, pages, deduped,
          config, delays, pipeline, utilities>>

-----------------------------------------------------------------------------
(* Bounds of the model *)

\* number of client calls made on the frontier in the specification Spec
MaxOps == 4
\* length of the page list handed to _deduplicate_pages
MaxPages == 3

-----------------------------------------------------------------------------
(* URLs *)

None == {}
Some(v) == {v}
Val(o) == CHOOSE v \in o : TRUE

Host == "docs.example.com"
OtherHost == "other.com"

MkUrl(s, n, p, q, f) ==
    [scheme |-> s, netloc |-> n, path |-> p, query |-> q, fragment |-> f]

\* the empty string
EmptyUrl == MkUrl("", "", <<>>, "", "")

\* an absolute URL of the crawled host / a root-relative reference / a bare fragment
Abs(p, q, f) == MkUrl("https", Host, p, q, f)
Rel(p, q, f) == MkUrl("", "", p, q, f)

\* str.lower() on a path token (the upper-case tokens the inputs use)
Lower(t) ==
    CASE t = ".PNG" -> ".png"
      [] t = "API" -> "api"
      [] OTHER -> t

LowerPath(p) == [i \in 1..Len(p) |-> Lower(p[i])]

EndsWith(p, suffix) ==
    /\ Len(p) >= Len(suffix)
    /\ SubSeq(p, Len(p) - Len(suffix) + 1, Len(p)) = suffix

Contains(p, sub) ==
    \E i \in 1..Len(p) :
        /\ i + Len(sub) - 1 <= Len(p)
        /\ SubSeq(p, i, i + Len(sub) - 1) = sub

\* str.rstrip('/') on a path
RECURSIVE RStripSlash(_)
RStripSlash(p) ==
    IF p # <<>> /\ p[Len(p)] = "/" THEN RStripSlash(SubSeq(p, 1, Len(p) - 1)) ELSE p

\* urllib.parse.urljoin(base, ref), without dot-segments
urljoin(base, ref) ==
    IF ref = EmptyUrl THEN base
    ELSE IF ref.scheme # "" THEN ref
    ELSE IF ref.netloc # "" THEN [ref EXCEPT !.scheme = base.scheme]
    ELSE IF ref.path = <<>> THEN
        [base EXCEPT !.query = IF ref.query # "" THEN ref.query ELSE base.query,
                     !.fragment = ref.fragment]
    ELSE IF ref.path[1] = "/" THEN
        MkUrl(base.scheme, base.netloc, ref.path, ref.query, ref.fragment)
    ELSE
        LET dir == IF base.path = <<>> THEN <<"/">>
                   ELSE SubSeq(base.path, 1,
                               CHOOSE i \in 1..Len(base.path) :
                                   /\ base.path[i] = "/"
                                   /\ \A j \in (i+1)..Len(base.path) : base.path[j] # "/")
        IN MkUrl(base.scheme, base.netloc, dir \o ref.path, ref.query, ref.fragment)

skip_extensions ==
    {".pdf", ".jpg", ".jpeg", ".png", ".gif", ".css", ".js", ".xml", ".zip"}

skip_paths ==
    { <<"/", "api", "/">>, <<"/", "admin", "/">>, <<"/", "login", "/">>,
      <<"/", "logout", "/">>, <<"/", "search", "/">> }

-----------------------------------------------------------------------------
(* URLManager *)

\* URLManager._normalize_url
normalize_url(m, u) ==
    IF u = EmptyUrl THEN u
    ELSE
        LET abs == IF u.scheme \notin {"http", "https"} THEN urljoin(m.base_url, u) ELSE u
            normalized == [abs EXCEPT !.fragment = ""]
        IN IF /\ normalized.query = ""
              /\ normalized.path # <<>>
              /\ normalized.path[Len(normalized.path)] = "/"
              /\ Len(abs.path) > 1
           THEN [normalized EXCEPT !.path = RStripSlash(normalized.path)]
           ELSE normalized

\* should_crawl without the file-extension filter
should_crawl_no_extension_filter(m, u) ==
    IF u = EmptyUrl THEN FALSE
    ELSE IF u.scheme = "" \/ u.netloc = "" THEN FALSE
    ELSE IF u.netloc # m.domain THEN FALSE
    ELSE IF u.fragment # "" /\ u.path = <<>> THEN FALSE
    ELSE IF \E sp \in skip_paths : Contains(LowerPath(u.path), sp) THEN FALSE
    ELSE TRUE

\* URLManager.should_crawl
should_crawl(m, u) ==
    IF u = EmptyUrl THEN FALSE
    ELSE IF u.scheme = "" \/ u.netloc = "" THEN FALSE
    ELSE IF u.netloc # m.domain THEN FALSE
    ELSE IF u.fragment # "" /\ u.path = <<>> THEN FALSE
    ELSE IF \E ext \in skip_extensions : EndsWith(LowerPath(u.path), <<ext>>) THEN FALSE
    ELSE IF \E sp \in skip_paths : Contains(LowerPath(u.path), sp) THEN FALSE
    ELSE TRUE

InQueue(m, n) == \E i \in 1..Len(m.urls_to_visit) : m.urls_to_visit[i] = n

\* the duplicate test of add_url
is_duplicate(m, n) == n \in m.visited_urls \/ InQueue(m, n)

\* the page-limit test with > for >=
limit_reached_strict(m) ==
    /\ m.max_pages # None
    /\ Val(m.max_pages) # 0
    /\ m.stats.total_found > Val(m.max_pages)

\* the page-limit test of add_url
limit_reached(m) ==
    /\ m.max_pages # None
    /\ Val(m.max_pages) # 0
    /\ m.stats.total_found >= Val(m.max_pages)

\* add_url without its page-limit test
add_url_uncapped(m, u) ==
    IF u = EmptyUrl THEN [um |-> m, ret |-> FALSE]
    ELSE
        LET normalized_url == normalize_url(m, u) IN
        IF ~should_crawl(m, normalized_url) THEN [um |-> m, ret |-> FALSE]
        ELSE IF is_duplicate(m, normalized_url) THEN
            [um |-> [m EXCEPT !.stats.duplicates = @ + 1], ret |-> FALSE]
        ELSE
            [um |-> [m EXCEPT !.urls_to_visit = Append(@, normalized_url),
                              !.stats.total_found = @ + 1],
             ret |-> TRUE]

\* URLManager.add_url: the manager after the call and the value returned
add_url(m, u) ==
    IF u = EmptyUrl THEN [um |-> m, ret |-> FALSE]
    ELSE
        LET normalized_url == normalize_url(m, u) IN
        IF ~should_crawl(m, normalized_url) THEN [um |-> m, ret |-> FALSE]
        ELSE IF is_duplicate(m, normalized_url) THEN
            [um |-> [m EXCEPT !.stats.duplicates = @ + 1], ret |-> FALSE]
        ELSE IF limit_reached(m) THEN
            [um |-> [m EXCEPT !.skipped_urls = @ \cup {normalized_url},
                              !.stats.skipped = @ + 1],
             ret |-> FALSE]
        ELSE
            [um |-> [m EXCEPT !.urls_to_visit = Append(@, normalized_url),
                              !.stats.total_found = @ + 1],
             ret |-> TRUE]

\* get_next_url with pop() for popleft()
get_next_url_lifo(m) ==
    IF m.urls_to_visit = <<>> THEN [um |-> m, ret |-> None]
    ELSE [um |-> [m EXCEPT !.urls_to_visit = SubSeq(@, 1, Len(@) - 1)],
          ret |-> Some(m.urls_to_visit[Len(m.urls_to_visit)])]

\* URLManager.get_next_url: the manager after the call and the value returned
get_next_url(m) ==
    IF m.urls_to_visit = <<>> THEN [um |-> m, ret |-> None]
    ELSE [um |-> [m EXCEPT !.urls_to_visit = Tail(@)],
          ret |-> Some(Head(m.urls_to_visit))]

\* URLManager.mark_visited
mark_visited(m, u) ==
    [m EXCEPT !.visited_urls = @ \cup {normalize_url(m, u)},
              !.stats.visited = @ + 1]

\* URLManager.mark_failed
mark_failed(m, u) ==
    [m EXCEPT !.failed_urls = @ \cup {normalize_url(m, u)},
              !.stats.failed = @ + 1]

\* URLManager.has_urls
has_urls(m) == Len(m.urls_to_visit) > 0

\* URLManager.__init__
URLManagerInit(base, mp) ==
    LET b == IF base.query = "" /\ base.fragment = ""
             THEN [base EXCEPT !.path = RStripSlash(base.path)] ELSE base
        m0 == [base_url |-> b,
               max_pages |-> mp,
               urls_to_visit |-> <<>>,
               visited_urls |-> {},
               failed_urls |-> {},
               skipped_urls |-> {},
               stats |-> [total_found |-> 0, visited |-> 0, failed |-> 0,
                          skipped |-> 0, duplicates |-> 0],
               domain |-> b.netloc]
    IN add_url(m0, b).um

-----------------------------------------------------------------------------
(* Inputs *)

\* Config.BASE_URL of the modelled site
BASE_URL == Abs(<<"/">>, "", "")

RootNoSlash == Abs(<<>>, "", "")
RootSlash == Abs(<<"/">>, "", "")
RootSlashFrag == Abs(<<"/">>, "", "section")
PageA == Abs(<<"/", "a">>, "", "")
PageASlash == Abs(<<"/", "a", "/">>, "", "")
PageAFrag == Abs(<<"/", "a">>, "", "section")
PageARel == Rel(<<"/", "a">>, "", "")
PageB == Abs(<<"/", "b">>, "", "")
PageBSlash == Abs(<<"/", "b", "/">>, "", "")
LoginDir == Abs(<<"/", "login", "/">>, "", "")
ApiPage == Abs(<<"/", "API", "/", "v1">>, "", "")
ImagePng == Abs(<<"/", "image", ".PNG">>, "", "")
External == MkUrl("https", OtherHost, <<"/", "page">>, "", "")

\* the URLs a client passes to add_url
InputUrls ==
    { EmptyUrl, RootNoSlash, RootSlash, RootSlashFrag, PageA, PageASlash, PageAFrag,
      PageARel, PageB, LoginDir, ApiPage, ImagePng, External }

\* the URLs a client passes to mark_visited / mark_failed
MarkUrls == { RootNoSlash, PageA, PageASlash, PageB }

\* the page caps a frontier is constructed with (None: unlimited)
MaxCap == 2
Caps == {None} \cup { Some(n) : n \in 1..MaxCap }

\* an entry of the log of accepted add_url calls: the argument and its canonical form
Accepted(u, n) == [url |-> u, canon |-> n]

-----------------------------------------------------------------------------
(* Specification Spec: a client calling the four frontier operations *)

\* Config() with its defaults
DefaultConfig ==
    [MAX_PAGES |-> None, DELAY_BETWEEN_REQUESTS |-> 1, OUTPUT_FILE |-> <<"cursor_docs", ".pdf">>]

\* no sleep and no fetch has happened
NoDelays == [fetches |-> 0, since |-> 0, gaps |-> <<>>]

IdleUtilities ==
    /\ rec = [pc |-> "idle"]
    /\ dom = [pc |-> "idle"]

IdlePipeline ==
    /\ IdleUtilities
    /\ gen = [pc |-> "idle"]
    /\ ex = [pc |-> "idle"]
    /\ so = [pc |-> "idle"]
    /\ mn = [pc |-> "idle"]

IdleCrawl ==
    /\ pc = "idle"
    /\ site = "none"
    /\ url = None
    /\ crawled_pages = <<>>
    /\ fetch_log = <<>>

IdleDedup ==
    /\ pages = <<>>
    /\ deduped = <<>>

Init ==
    /\ \E mp \in Caps : url_manager = URLManagerInit(BASE_URL, mp)
    /\ call = [op |-> "init", arg |-> BASE_URL]
    /\ ret = None
    /\ accepted = [i \in 1..Len(url_manager.urls_to_visit) |->
                       Accepted(url_manager.base_url, url_manager.urls_to_visit[i])]
    /\ returned = <<>>
    /\ nops = 0
    /\ IdleCrawl
    /\ IdleDedup
    /\ config = DefaultConfig
    /\ delays = NoDelays
    /\ IdlePipeline

AddUrl(u) ==
    /\ nops < MaxOps
    /\ LET r == add_url(url_manager, u) IN
        /\ url_manager' = r.um
        /\ ret' = r.ret
        /\ accepted' = IF r.ret
                       THEN Append(accepted, Accepted(u, normalize_url(url_manager, u)))
                       ELSE accepted
    /\ call' = [op |-> "add_url", arg |-> u]
    /\ nops' = nops + 1
    /\ UNCHANGED <<returned, pc, site, url, crawled_pages, fetch_log, pages, deduped,
                   config, delays, pipeline, utilities>>

GetNextUrl ==
    /\ nops < MaxOps
    /\ LET r == get_next_url(url_manager) IN
        /\ url_manager' = r.um
        /\ ret' = r.ret
        /\ returned' = IF r.ret # None THEN Append(returned, Val(r.ret)) ELSE returned
    /\ call' = [op |-> "get_next_url", arg |-> EmptyUrl]
    /\ nops' = nops + 1
    /\ UNCHANGED <<accepted, pc, site, url, crawled_pages, fetch_log, pages, deduped,
                   config, delays, pipeline, utilities>>

MarkVisited(u) ==
    /\ nops < MaxOps
    /\ url_manager' = mark_visited(url_manager, u)
    /\ ret' = None
    /\ call' = [op |-> "mark_visited", arg |-> u]
    /\ nops' = nops + 1
    /\ UNCHANGED <<accepted, returned, pc, site, url, crawled_pages, fetch_log,
                   pages, deduped,
                   config, delays, pipeline, utilities>>

MarkFailed(u) ==
    /\ nops < MaxOps
    /\ url_manager' = mark_failed(url_manager, u)
    /\ ret' = None
    /\ call' = [op |-> "mark_failed", arg |-> u]
    /\ nops' = nops + 1
    /\ UNCHANGED <<accepted, returned, pc, site, url, crawled_pages, fetch_log,
                   pages, deduped,
                   config, delays, pipeline, utilities>>

Next ==
    \/ \E u \in InputUrls : AddUrl(u)
    \/ GetNextUrl
    \/ \E u \in MarkUrls : MarkVisited(u)
    \/ \E u \in MarkUrls : MarkFailed(u)

Spec == Init /\ [][Next]_vars

-----------------------------------------------------------------------------
(* Claims on the frontier operations, checked under Spec *)

Queue == url_manager.urls_to_visit
Stats == url_manager.stats

\* a step of Spec that is the call op(u)
IsCall(op, u) == nops' = nops + 1 /\ call' = [op |-> op, arg |-> u]

OnlyFragmentDiffers(a, b) ==
    a # b /\ [a EXCEPT !.fragment = ""] = [b EXCEPT !.fragment = ""]

OnlyTrailingSlashDiffers(a, b) ==
    \/ /\ b.path = a.path \o <<"/">>
       /\ [b EXCEPT !.path = a.path] = a
    \/ /\ a.path = b.path \o <<"/">>
       /\ [a EXCEPT !.path = b.path] = b

\* C1: of two URLs that differ only by a fragment or only by a trailing slash
\* (the root URL with and without its slash and the base URL added at
\* construction included), add_url returns True for at most one.
C1_AtMostOneAccepted ==
    \A i, j \in DOMAIN accepted :
        i < j =>
            /\ ~OnlyFragmentDiffers(accepted[i].url, accepted[j].url)
            /\ ~OnlyTrailingSlashDiffers(accepted[i].url, accepted[j].url)

\* C2: with a page cap, total_found never exceeds the cap, and an add_url of a
\* crawlable, non-duplicate URL made while total_found equals the cap returns
\* False, leaves the queue unchanged, records the URL in the skipped set and
\* increments the skipped counter.
C2_CapRespected ==
    /\ [](url_manager.max_pages # None => Stats.total_found <= Val(url_manager.max_pages))
    /\ [][ \A u \in InputUrls :
             ( /\ IsCall("add_url", u)
               /\ url_manager.max_pages # None
               /\ Stats.total_found = Val(url_manager.max_pages)
               /\ u # EmptyUrl
               /\ should_crawl(url_manager, normalize_url(url_manager, u))
               /\ ~is_duplicate(url_manager, normalize_url(url_manager, u)) )
             => /\ ret' = FALSE
                /\ url_manager'.urls_to_visit = Queue
                /\ normalize_url(url_manager, u) \in url_manager'.skipped_urls
                /\ url_manager'.stats.skipped = Stats.skipped + 1
                /\ url_manager'.stats.total_found = Stats.total_found ]_vars

C2_Witness ==
    /\ call.op = "add_url"
    /\ ret = FALSE
    /\ url_manager.max_pages # None
    /\ Stats.total_found = Val(url_manager.max_pages)
    /\ normalize_url(url_manager, call.arg) \in url_manager.skipped_urls
    /\ Stats.skipped = 1
    /\ Val(url_manager.max_pages) >= 2
    /\ Len(Queue) = Val(url_manager.max_pages)

\* C5: mark_visited and mark_failed are idempotent: a second call in a row with
\* the same URL leaves the whole frontier state, counters included, as it was
\* after the first.
C5_MarkIdempotent ==
    [][ \A u \in MarkUrls : \A op \in {"mark_visited", "mark_failed"} :
          (call = [op |-> op, arg |-> u] /\ IsCall(op, u))
          => url_manager' = url_manager ]_vars

\* C6: get_next_url returns the accepted URLs in the order add_url accepted
\* them, each once per acceptance; on an empty queue it returns None and
\* changes no frontier state.
C6_Fifo ==
    /\ [](returned \o Queue = [i \in DOMAIN accepted |-> accepted[i].canon])
    /\ [][ IsCall("get_next_url", EmptyUrl) =>
             IF Queue = <<>>
             THEN ret' = None /\ url_manager' = url_manager
             ELSE /\ ret' = Some(Head(Queue))
                  /\ url_manager' = [url_manager EXCEPT !.urls_to_visit = Tail(Queue)] ]_vars

C6_Witness ==
    /\ Len(returned) >= 2
    /\ returned[1] # returned[2]
    /\ call.op = "get_next_url"
    /\ ret = None
    /\ Queue = <<>>

IsNonDocument(u) ==
    \E ext \in skip_extensions : EndsWith(LowerPath(u.path), <<ext>>)

IsOtherDomain(u) == u.netloc # "" /\ u.netloc # url_manager.domain

\* C7: add_url returns False for an empty URL, a URL of another domain and a
\* URL whose path ends with a non-document extension, and then leaves the
\* queue, the visited/failed/skipped sets and every counter unchanged.
C7_RejectedUnchanged ==
    [][ \A u \in InputUrls :
          (IsCall("add_url", u) /\ (u = EmptyUrl \/ IsOtherDomain(u) \/ IsNonDocument(u)))
          => ret' = FALSE /\ url_manager' = url_manager ]_vars

C7_Witness ==
    /\ call.op = "add_url"
    /\ call.arg = ImagePng
    /\ ret = FALSE
    /\ Len(Queue) >= 2
    /\ Stats.visited >= 1

IsBlockedPath(u) == \E sp \in skip_paths : Contains(LowerPath(u.path), sp)

\* C8: add_url rejects (returns False, nothing queued) every URL whose path
\* contains /api/, /admin/, /login/, /logout/ or /search/, the blocked
\* directory itself with its trailing slash included.
C8_BlockedRejected ==
    (call.op = "add_url" /\ IsBlockedPath(call.arg))
    => /\ ret = FALSE
       /\ ~InQueue(url_manager, normalize_url(url_manager, call.arg))

-----------------------------------------------------------------------------
(* The crawl loop: SeleniumCrawler.crawl_all over a site served by the browser *)

GettingStarted == <<"/", "getting-started">>
Features == <<"/", "features">>
Settings == <<"/", "settings">>
Troubleshooting == <<"/", "troubleshooting">>
BlogExtra == <<"/", "blog", "/", "extra">>

\* the sites crawled, each with the page cap of its configuration:
\* "docs" is the five-page documentation site with one link beyond the cap,
\* "small" a site with cyclic links, a redirect and links that are filtered
CrawlConfigs ==
    { [site |-> "docs", max_pages |-> Some(5)],
      [site |-> "small", max_pages |-> None],
      [site |-> "small", max_pages |-> Some(2)] }

\* the href attributes of the anchors of the page served at u, in document order
PageHrefs(s, u) ==
    LET key == RStripSlash(u.path) IN
    IF s = "docs" THEN
        IF key = <<>> THEN
            << Rel(<<"/">>, "", ""), Rel(GettingStarted, "", ""), Rel(Features, "", ""),
               Rel(Settings, "", ""), Rel(Troubleshooting, "", ""), Rel(BlogExtra, "", "") >>
        ELSE <<>>
    ELSE
        IF key = <<>> THEN
            << PageARel, PageASlash, Rel(<<"/", "b">>, "", ""), LoginDir,
               Rel(<<"/", "image", ".PNG">>, "", ""), External, Rel(<<>>, "", "section") >>
        ELSE IF key = <<"/", "a">> THEN
            << Rel(<<"/", "b">>, "", "section"), RootSlash, EmptyUrl >>
        ELSE IF key = <<"/", "b">> THEN
            << PageAFrag >>
        ELSE <<>>

\* the values driver.current_url can have after driver.get(u): u itself, the
\* root with the slash the browser adds, or the target of a redirect of the site
FinalUrls(s, u) ==
    {u}
    \cup (IF u.path = <<>> THEN {[u EXCEPT !.path = <<"/">>]} ELSE {})
    \cup (IF s = "small" /\ u.path = <<"/", "a">> THEN {PageB} ELSE {})
    \cup (IF s = "small" /\ u.path = <<"/", "b">> THEN {PageBSlash} ELSE {})

\* SeleniumCrawler.extract_links
RECURSIVE extract_links(_, _, _)
extract_links(m, hrefs, base) ==
    IF hrefs = <<>> THEN <<>>
    ELSE LET href == Head(hrefs)
             rest == extract_links(m, Tail(hrefs), base)
         IN IF href = EmptyUrl THEN rest
            ELSE LET absolute_url == urljoin(base, href)
                 IN IF should_crawl(m, absolute_url) THEN <<absolute_url>> \o rest
                    ELSE rest

\* PageData as crawl_page builds it (url with its trailing slashes stripped)
PageData(u, links, final, valid) ==
    [url |-> IF u.query = "" /\ u.fragment = ""
             THEN [u EXCEPT !.path = RStripSlash(u.path)] ELSE u,
     links |-> links,
     final_url |-> Some(final),
     valid |-> valid]

\* the loop "for link in page_data.links: add_url(link)" of crawl_all, with the
\* log of the accepted calls
RECURSIVE add_links(_, _, _)
add_links(m, acc, links) ==
    IF links = <<>> THEN [um |-> m, accepted |-> acc]
    ELSE LET r == add_url(m, Head(links))
         IN add_links(r.um,
                      IF r.ret
                      THEN Append(acc, Accepted(Head(links), normalize_url(m, Head(links))))
                      ELSE acc,
                      Tail(links))

\* the body of crawl_all's "if page_data and page_data.is_valid()"
record_page(m, u, page_data) ==
    LET m1 == mark_visited(m, u)
        final == Val(page_data.final_url)
    IN IF page_data.final_url # None /\ final # u THEN mark_visited(m1, final) ELSE m1

IdleClient ==
    /\ call = [op |-> "init", arg |-> BASE_URL]
    /\ ret = None
    /\ returned = <<>>
    /\ nops = 0

CrawlInit ==
    /\ \E c \in CrawlConfigs :
        /\ site = c.site
        /\ config = [DefaultConfig EXCEPT !.MAX_PAGES = c.max_pages]
        /\ url_manager = URLManagerInit(BASE_URL, c.max_pages)
    /\ delays = NoDelays
    /\ IdlePipeline
    /\ accepted = [i \in 1..Len(url_manager.urls_to_visit) |->
                       Accepted(url_manager.base_url, url_manager.urls_to_visit[i])]
    /\ IdleClient
    /\ pc = "loop"
    /\ url = None
    /\ crawled_pages = <<>>
    /\ fetch_log = <<>>
    /\ IdleDedup

\* time.sleep(config.DELAY_BETWEEN_REQUESTS) returns
sleep(d) == [d EXCEPT !.since = @ + 1]

\* driver.get(url) is called: one more fetch attempt, after d.since sleeps
driver_get(d) ==
    [fetches |-> d.fetches + 1,
     since |-> 0,
     gaps |-> IF d.fetches >= 1 THEN Append(d.gaps, d.since) ELSE d.gaps]

\* crawl_all without its sleep before crawl_page
sleep_between_requests_never(d, crawled) == d

\* crawl_all: "if crawled_pages: time.sleep(...)"
sleep_between_requests(d, crawled) == IF crawled # <<>> THEN sleep(d) ELSE d

\* config.MAX_PAGES, the value main hands to URLManager
config_MAX_PAGES == url_manager.max_pages

page_limit_reached ==
    /\ config_MAX_PAGES # None
    /\ Val(config_MAX_PAGES) # 0
    /\ Len(crawled_pages) >= Val(config_MAX_PAGES)

\* crawl_all leaves its loop: the queue is empty or the page limit is reached
CrawlStop ==
    /\ pc = "loop"
    /\ ~has_urls(url_manager) \/ page_limit_reached
    /\ pc' = "done"
    /\ UNCHANGED <<url_manager, call, ret, accepted, returned, nops, site, url,
                   crawled_pages, fetch_log, pages, deduped,
                   config, delays, pipeline, utilities>>

\* crawl_all takes the next URL of the queue
CrawlDequeue ==
    /\ pc = "loop"
    /\ has_urls(url_manager)
    /\ ~page_limit_reached
    /\ LET r == get_next_url(url_manager) IN
        /\ url_manager' = r.um
        /\ url' = r.ret
        /\ returned' = Append(returned, Val(r.ret))
    /\ delays' = sleep_between_requests(delays, crawled_pages)
    /\ pc' = "fetch"
    /\ UNCHANGED <<call, ret, accepted, nops, site, crawled_pages, fetch_log,
                   pages, deduped, config, pipeline, utilities>>

\* crawl_page raises inside its try block and returns None: driver.get raises,
\* time.sleep raises on a negative delay, or a later statement raises
CrawlPageError ==
    /\ pc = "fetch"
    /\ \E slept \in BOOLEAN :
        /\ slept => config.DELAY_BETWEEN_REQUESTS >= 0
        /\ delays' = IF slept THEN sleep(driver_get(delays)) ELSE driver_get(delays)
    /\ fetch_log' = Append(fetch_log, [url |-> Val(url), outcome |-> "error"])
    /\ pc' = "loop"
    /\ UNCHANGED <<url_manager, call, ret, accepted, returned, nops, site, url,
                   crawled_pages, pages, deduped, config, pipeline, utilities>>

\* crawl_page returns a page whose html is blank: is_valid() is False
CrawlPageInvalid ==
    /\ pc = "fetch"
    /\ config.DELAY_BETWEEN_REQUESTS >= 0
    /\ delays' = sleep(driver_get(delays))
    /\ fetch_log' = Append(fetch_log, [url |-> Val(url), outcome |-> "invalid"])
    /\ pc' = "loop"
    /\ UNCHANGED <<url_manager, call, ret, accepted, returned, nops, site, url,
                   crawled_pages, pages, deduped, config, pipeline, utilities>>

\* crawl_page returns a valid page, which crawl_all records
CrawlPageOk ==
    /\ pc = "fetch"
    /\ config.DELAY_BETWEEN_REQUESTS >= 0
    /\ delays' = sleep(driver_get(delays))
    /\ \E final \in FinalUrls(site, Val(url)) :
        LET u == Val(url)
            page_data == PageData(u, extract_links(url_manager, PageHrefs(site, u), u),
                                  final, TRUE)
            r == add_links(record_page(url_manager, u, page_data), accepted,
                           page_data.links)
        IN /\ crawled_pages' = Append(crawled_pages, page_data)
           /\ url_manager' = r.um
           /\ accepted' = r.accepted
    /\ fetch_log' = Append(fetch_log, [url |-> Val(url), outcome |-> "ok"])
    /\ pc' = "loop"
    /\ UNCHANGED <<call, ret, returned, nops, site, url, pages, deduped,
                   config, pipeline, utilities>>

CrawlNext ==
    \/ CrawlStop
    \/ CrawlDequeue
    \/ CrawlPageError
    \/ CrawlPageInvalid
    \/ CrawlPageOk

CrawlSpec == CrawlInit /\ [][CrawlNext]_vars

-----------------------------------------------------------------------------
(* Claims on the crawl loop, checked under CrawlSpec *)

FailedFetches == { i \in DOMAIN fetch_log : fetch_log[i].outcome # "ok" }
OkFetches == { i \in DOMAIN fetch_log : fetch_log[i].outcome = "ok" }

\* C3: base URL https://docs.example.com/, page cap 5, a root page linking to
\* /, /getting-started, /features, /settings, /troubleshooting and /blog/extra:
\* when the crawl loop has finished (every fetch having succeeded),
\* total_found = 5 and skipped = 1, the skipped URL being /blog/extra.
C3_DocsScenario ==
    (site = "docs" /\ pc = "done" /\ fetch_log # <<>> /\ FailedFetches = {})
    => /\ Stats.total_found = 5
       /\ Stats.skipped = 1
       /\ url_manager.skipped_urls = {Abs(BlogExtra, "", "")}

\* the number of the four frontier collections a canonical URL is a member of
Memberships(u) ==
    Cardinality({ k \in {"queue", "visited", "failed", "skipped"} :
        \/ k = "queue" /\ InQueue(url_manager, u)
        \/ k = "visited" /\ u \in url_manager.visited_urls
        \/ k = "failed" /\ u \in url_manager.failed_urls
        \/ k = "skipped" /\ u \in url_manager.skipped_urls })

KnownUrls ==
    { Queue[i] : i \in DOMAIN Queue } \cup url_manager.visited_urls
    \cup url_manager.failed_urls \cup url_manager.skipped_urls

\* C4: no canonical URL is a member of more than one of the queue, the visited
\* set, the failed set and the skipped set.
C4_OneStateAtATime == \A u \in KnownUrls : Memberships(u) <= 1

\* C9: whenever the crawl loop dequeues a URL and its fetch fails, the URL is
\* in the failed set, the failed counter is incremented, and the page is not
\* among the crawled pages.
C9_FailureRecorded ==
    /\ \A i \in FailedFetches : fetch_log[i].url \in url_manager.failed_urls
    /\ Stats.failed = Cardinality(FailedFetches)
    /\ Len(crawled_pages) = Cardinality(OkFetches)

\* C19: in the crawl loop, between any two successive fetch attempts
\* (successful or failed) at least one blocking delay of
\* DELAY_BETWEEN_REQUESTS occurs.
C19_DelayBetweenFetches == \A i \in DOMAIN delays.gaps : delays.gaps[i] >= 1

C19_Witness ==
    /\ Len(fetch_log) >= 3
    /\ fetch_log[2].outcome = "error"
    /\ delays.fetches = 3
    /\ delays.gaps = <<2, 1>>

-----------------------------------------------------------------------------
(* The document assembler's de-duplication: PDFGenerator._deduplicate_pages *)

\* a PageContent, by the fields _deduplicate_pages reads and the title that
\* tells two pages of one URL apart
PageContent(u, final, title) == [url |-> u, final_url |-> final, title |-> title]

PageContents ==
    { PageContent(u, final, title) :
        u \in {PageA, PageB},
        final \in {None, Some(PageA), Some(PageB)},
        title \in {"A", "B"} }

RECURSIVE SeqsUpTo(_, _)
SeqsUpTo(S, n) ==
    IF n = 0 THEN { <<>> }
    ELSE LET shorter == SeqsUpTo(S, n - 1)
         IN shorter \cup { Append(q, x) : q \in { r \in shorter : Len(r) = n - 1 }, x \in S }

\* check_url that reads the request URL alone
check_url_request_only(page) == page.url

\* "check_url = page.final_url if page.final_url else page.url"
check_url(page) ==
    IF page.final_url # None /\ Val(page.final_url) # EmptyUrl
    THEN Val(page.final_url) ELSE page.url

\* the loop of _deduplicate_pages over the pages still to read
RECURSIVE dedup_loop(_, _, _)
dedup_loop(rest, seen, out) ==
    IF rest = <<>> THEN out
    ELSE LET page == Head(rest) IN
         IF check_url(page) \notin seen
         THEN dedup_loop(Tail(rest), seen \cup {check_url(page)}, Append(out, page))
         ELSE dedup_loop(Tail(rest), seen, out)

\* PDFGenerator._deduplicate_pages
deduplicate_pages(ps) == dedup_loop(ps, {}, <<>>)

DedupInit ==
    /\ pages \in SeqsUpTo(PageContents, MaxPages)
    /\ deduped = <<>>
    /\ pc = "assemble"
    /\ config = DefaultConfig
    /\ delays = NoDelays
    /\ IdlePipeline
    /\ url_manager = URLManagerInit(BASE_URL, None)
    /\ accepted = <<>>
    /\ IdleClient
    /\ site = "none"
    /\ url = None
    /\ crawled_pages = <<>>
    /\ fetch_log = <<>>

\* generate_pdf de-duplicates the pages it is given
Deduplicate ==
    /\ pc = "assemble"
    /\ deduped' = deduplicate_pages(pages)
    /\ pc' = "deduped"
    /\ UNCHANGED <<url_manager, call, ret, accepted, returned, nops, site, url,
                   crawled_pages, fetch_log, pages,
                   config, delays, pipeline, utilities>>

DedupNext == Deduplicate

DedupSpec == DedupInit /\ [][DedupNext]_vars

\* the resolved URL of a page: final_url when set, otherwise url
Resolved(page) == IF page.final_url = None THEN page.url ELSE Val(page.final_url)

\* the positions of the pages that are the first of their resolved URL
FirstOfUrl ==
    { i \in DOMAIN pages :
        \A j \in 1..(i - 1) : Resolved(pages[j]) # Resolved(pages[i]) }

\* C10: _deduplicate_pages returns a sub-list that preserves input order and
\* holds, for every resolved URL, exactly the first page of the input with
\* that resolved URL; two pages sharing a final_url yield one page, the earlier.
C10_DedupKeepsFirst ==
    pc = "deduped" =>
        /\ Len(deduped) = Cardinality(FirstOfUrl)
        /\ \E f \in [DOMAIN deduped -> FirstOfUrl] :
            /\ \A k, l \in DOMAIN deduped : k < l => f[k] < f[l]
            /\ \A k \in DOMAIN deduped : deduped[k] = pages[f[k]]

C10_Witness ==
    /\ pc = "deduped"
    /\ Len(pages) >= 3
    /\ pages[1].final_url # None
    /\ pages[1].final_url = pages[3].final_url
    /\ pages[1].url # pages[3].url
    /\ pages[1].title # pages[3].title
    /\ Resolved(pages[2]) # Resolved(pages[1])
    /\ Len(deduped) = 2
    /\ deduped[1] = pages[1]

\* ---------------------------------------------------------------------------
\* PDFGenerator.generate_pdf, statement by statement
\* ---------------------------------------------------------------------------

\* the state of the crawler and of its configuration, which the later stages
\* of the pipeline leave alone
crawler_vars ==
    <<url_manager, call, ret, accepted, returned, nops, site, url,
      crawled_pages, fetch_log, config, delays>>

\* the statements of the try block that can raise, in order
PrimaryStages ==
    <<"deduplicate_pages", "sort_pages", "create_html_document",
      "create_css_styles", "HTML_CSS", "makedirs", "write_pdf">>

\* the statements of the fallback try block, in order
FallbackStages == <<"create_fallback_html", "HTML", "write_pdf">>

\* the call generate_pdf(pages, output_path) has been entered
GenStart ==
    [pc |-> "primary", stage |-> 1, sorted_pages |-> "unbound",
     e |-> None, renders |-> <<>>, result |-> "none"]

\* one call of write_pdf on the primary or on the fallback document
render(g, doc, ok) == [g EXCEPT !.renders = Append(@, [doc |-> doc, ok |-> ok])]

\* a statement of the try block completes
primary_ok(g) ==
    LET name == PrimaryStages[g.stage] IN
    IF name = "write_pdf"
    THEN [render(g, "primary", TRUE) EXCEPT !.pc = "returned", !.result = "True"]
    ELSE [g EXCEPT !.stage = @ + 1,
                   !.sorted_pages = IF name = "sort_pages" THEN "bound" ELSE @]

\* "except Exception as e": a statement of the try block raised
primary_failed(g) ==
    LET name == PrimaryStages[g.stage]
        h == IF name = "write_pdf" THEN render(g, "primary", FALSE) ELSE g
    IN [h EXCEPT !.pc = "fallback", !.stage = 1, !.e = Some(name)]

\* _create_fallback_html(sorted_pages, str(e)) reads the local sorted_pages,
\* which is unbound when the try block raised before its assignment
can_complete(g) ==
    FallbackStages[g.stage] = "create_fallback_html" => g.sorted_pages = "bound"

\* a statement of the fallback try block completes
fallback_ok(g) ==
    IF FallbackStages[g.stage] = "write_pdf"
    THEN [render(g, "fallback", TRUE) EXCEPT !.pc = "returned", !.result = "True"]
    ELSE [g EXCEPT !.stage = @ + 1]

\* an inner handler that lets the fallback error out of generate_pdf
fallback_failed_reraise(g) ==
    LET h == IF FallbackStages[g.stage] = "write_pdf"
             THEN render(g, "fallback", FALSE) ELSE g
    IN [h EXCEPT !.pc = "returned", !.result = "raised"]

\* "except Exception as fallback_error: ... return False"
fallback_failed(g) ==
    LET h == IF FallbackStages[g.stage] = "write_pdf"
             THEN render(g, "fallback", FALSE) ELSE g
    IN [h EXCEPT !.pc = "returned", !.result = "False"]

\* the two pages generate_pdf is called with here: B redirects to A
GenPages == { PageContent(PageA, None, "A"), PageContent(PageB, Some(PageA), "B") }

GenInit ==
    /\ pages \in SeqsUpTo(GenPages, MaxPages)
    /\ deduped = <<>>
    /\ pc = "assemble"
    /\ gen = GenStart
    /\ IdleUtilities
    /\ ex = [pc |-> "idle"]
    /\ so = [pc |-> "idle"]
    /\ mn = [pc |-> "idle"]
    /\ config = DefaultConfig
    /\ delays = NoDelays
    /\ url_manager = URLManagerInit(BASE_URL, None)
    /\ accepted = <<>>
    /\ IdleClient
    /\ site = "none"
    /\ url = None
    /\ crawled_pages = <<>>
    /\ fetch_log = <<>>

\* the next statement of the try block completes
GenPrimaryOk ==
    /\ gen.pc = "primary"
    /\ gen' = primary_ok(gen)
    /\ IF PrimaryStages[gen.stage] = "deduplicate_pages"
       THEN deduped' = deduplicate_pages(pages) /\ pc' = "deduped"
       ELSE UNCHANGED <<deduped, pc>>
    /\ UNCHANGED <<crawler_vars, utilities, pages, ex, so, mn>>

\* the next statement of the try block raises an Exception
GenPrimaryFail ==
    /\ gen.pc = "primary"
    /\ gen' = primary_failed(gen)
    /\ UNCHANGED <<crawler_vars, utilities, pages, deduped, pc, ex, so, mn>>

\* the next statement of the fallback try block completes
GenFallbackOk ==
    /\ gen.pc = "fallback"
    /\ can_complete(gen)
    /\ gen' = fallback_ok(gen)
    /\ UNCHANGED <<crawler_vars, utilities, pages, deduped, pc, ex, so, mn>>

\* the next statement of the fallback try block raises an Exception
GenFallbackFail ==
    /\ gen.pc = "fallback"
    /\ gen' = fallback_failed(gen)
    /\ UNCHANGED <<crawler_vars, utilities, pages, deduped, pc, ex, so, mn>>

GenNext == GenPrimaryOk \/ GenPrimaryFail \/ GenFallbackOk \/ GenFallbackFail

GenSpec == GenInit /\ [][GenNext]_vars

\* the renders of one document that succeeded
OkRenders == { i \in DOMAIN gen.renders : gen.renders[i].ok }

\* C11: generate_pdf never raises to its caller; write_pdf is called at most
\* twice per call, the fallback document is rendered only after the primary
\* path failed, and the call returns True exactly when the primary or the
\* fallback render succeeded and False when both failed.
C11_GeneratePdfContained ==
    /\ Len(gen.renders) <= 2
    /\ \A i \in DOMAIN gen.renders :
         /\ gen.renders[i].doc = "fallback" =>
              /\ gen.e # None
              /\ \A j \in DOMAIN gen.renders : gen.renders[j].doc = "primary" => ~gen.renders[j].ok
         /\ gen.renders[i].doc = "primary" => i = 1
    /\ gen.pc = "returned" =>
         /\ gen.result \in {"True", "False"}
         /\ gen.result = "True" <=> OkRenders # {}

C11_Witness ==
    /\ gen.pc = "returned"
    /\ gen.result = "False"
    /\ gen.renders = <<[doc |-> "primary", ok |-> FALSE], [doc |-> "fallback", ok |-> FALSE]>>
    /\ Len(pages) >= 2

\* ---------------------------------------------------------------------------
\* ContentParser.parse_page and the extraction loop of main
\* ---------------------------------------------------------------------------

\* "[:1000]": the number of characters of the raw text preview
PreviewLen == 1000

\* a piece of text, by where it comes from and how many characters it has:
\* src "page" is a prefix of the text of the page (get_text(strip=True)),
\* src "error" is the message "Error parsing content: " + str(e),
\* src "content" is the text of the extracted main content
Text(src, len) == [src |-> src, len |-> len]

\* a slice that keeps the whole text
slice_all(s, n) == s

\* s[:n]
slice(s, n) == [s EXCEPT !.len = IF @ <= n THEN @ ELSE n]

\* "x or default" on strings
str_or(x, default) == IF x # "" THEN x ELSE default

\* a PageData with the title and the text of its html_content
PageDataHtml(u, title, text_len) ==
    [url |-> PageData(u, <<>>, u, TRUE).url,
     title |-> title,
     page_text |-> Text("page", text_len),
     final_url |-> Some(u),
     valid |-> TRUE]

\* PageContent._extract_title_from_url, on the pages extracted here
extract_title_from_url(u) ==
    IF u.path \in {<<>>, <<"/">>} THEN "Home"
    ELSE IF u.path = <<"/", "a">> THEN "A"
    ELSE IF u.path = <<"/", "b">> THEN "B"
    ELSE "Untitled"

\* the dataclass PageContent with its __post_init__ (the order key is modelled
\* with the page sorter below)
PageContent_post_init(u, title, content_html, text_content, images, final_url) ==
    [url |-> u,
     title |-> IF title = "" THEN extract_title_from_url(u) ELSE title,
     content_html |-> content_html,
     text_content |-> text_content,
     images |-> images,
     final_url |-> final_url]

\* PageContent.is_valid
is_valid(p) ==
    /\ p.url # EmptyUrl
    /\ p.title # ""
    /\ (p.content_html.len > 0 \/ p.text_content.len > 0)

\* how one call of parse_page goes: the pipeline completes ("ok") with some
\* main content and images, the pipeline raises an error e and the raw text
\* preview is built ("fallback"), or the preview raises too ("ultimate");
\* content and e are the lengths of the main content and of str(e)
Outcomes ==
    { [kind |-> "ok", content |-> 0, images |-> <<>>, e |-> 0],
      [kind |-> "ok", content |-> 120, images |-> <<"img.png">>, e |-> 0],
      [kind |-> "fallback", content |-> 0, images |-> <<>>, e |-> 40],
      [kind |-> "ultimate", content |-> 0, images |-> <<>>, e |-> 0],
      [kind |-> "ultimate", content |-> 0, images |-> <<>>, e |-> 40] }

\* "basic_text = basic_soup.get_text(strip=True)[:1000]"
basic_text(page_data) == slice(page_data.page_text, PreviewLen)

\* ContentParser.parse_page
parse_page(page_data, o) ==
    IF o.kind = "ok"
    THEN PageContent_post_init(page_data.url, page_data.title,
             Text("markup", o.content), Text("content", o.content),
             o.images, page_data.final_url)
    ELSE IF o.kind = "fallback"
    THEN PageContent_post_init(page_data.url,
             str_or(page_data.title, "Error Page"),
             Text("markup", 53 + basic_text(page_data).len + 6),
             basic_text(page_data), <<>>, None)
    ELSE PageContent_post_init(page_data.url,
             str_or(page_data.title, "Error Page"),
             Text("markup", 26 + o.e + 4),
             Text("error", 23 + o.e), <<>>, None)

\* a loop body that leaves out the page whose pipeline failed
process_page_drop_failed(processed_pages, page_data, o) ==
    IF o.kind = "ok" THEN Append(processed_pages, parse_page(page_data, o))
    ELSE processed_pages

\* the body of "for idx, page_data in enumerate(crawled_pages, 1)" in main
process_page(processed_pages, page_data, o) ==
    Append(processed_pages, parse_page(page_data, o))

\* the crawled pages the extraction loop is run on
CrawledPages ==
    { PageDataHtml(PageA, "", 1001), PageDataHtml(PageB, "Docs", 999),
      PageDataHtml(BASE_URL, "", 0), PageDataHtml(PageASlash, "Docs", 2500) }

ExtractInit ==
    /\ crawled_pages \in SeqsUpTo(CrawledPages, MaxPages)
    /\ ex = [pc |-> "loop", idx |-> 1, processed_pages |-> <<>>, outcomes |-> <<>>]
    /\ IdleUtilities
    /\ gen = [pc |-> "idle"]
    /\ so = [pc |-> "idle"]
    /\ mn = [pc |-> "idle"]
    /\ pages = <<>>
    /\ deduped = <<>>
    /\ pc = "done"
    /\ config = DefaultConfig
    /\ delays = NoDelays
    /\ url_manager = URLManagerInit(BASE_URL, None)
    /\ accepted = <<>>
    /\ IdleClient
    /\ site = "none"
    /\ url = None
    /\ fetch_log = <<>>

\* one iteration of the extraction loop
ParsePage ==
    /\ ex.pc = "loop"
    /\ ex.idx <= Len(crawled_pages)
    /\ \E o \in Outcomes :
         ex' = [ex EXCEPT
                  !.idx = @ + 1,
                  !.processed_pages = process_page(@, crawled_pages[ex.idx], o),
                  !.outcomes = Append(@, o.kind)]
    /\ UNCHANGED <<crawler_vars, utilities, pc, pages, deduped, gen, so, mn>>

\* the loop is over: "if not processed_pages: return 1", else go on
ExtractDone ==
    /\ ex.pc = "loop"
    /\ ex.idx > Len(crawled_pages)
    /\ ex' = [ex EXCEPT !.pc = IF ex.processed_pages = <<>> THEN "return 1" ELSE "extracted"]
    /\ UNCHANGED <<crawler_vars, utilities, pc, pages, deduped, gen, so, mn>>

ExtractNext == ParsePage \/ ExtractDone

ExtractSpec == ExtractInit /\ [][ExtractNext]_vars

\* the positions of the pages whose pipeline failed
FailedParses == { i \in DOMAIN ex.outcomes : ex.outcomes[i] # "ok" }

\* the title of a fallback page: the original one, or "Error Page" when empty
FallbackTitleAndImages(i) ==
    /\ ex.processed_pages[i].title =
         IF crawled_pages[i].title = "" THEN "Error Page" ELSE crawled_pages[i].title
    /\ ex.processed_pages[i].images = <<>>

\* the text is a prefix of the page text of at most 1000 characters
IsPreview(i) ==
    /\ ex.processed_pages[i].text_content.src = "page"
    /\ ex.processed_pages[i].text_content.len <= PreviewLen
    /\ ex.processed_pages[i].text_content.len <= crawled_pages[i].page_text.len

\* C12 as stated: parse_page returns a PageContent for every PageData and never
\* raises; when any pipeline stage fails the page has the original title or
\* "Error Page", at most the first 1000 characters of the page text as its
\* text, and no images.
C12_FallbackIsPreview ==
    /\ Len(ex.processed_pages) = Len(ex.outcomes)
    /\ \A i \in FailedParses : FallbackTitleAndImages(i) /\ IsPreview(i)

\* C12, amended: parse_page returns a PageContent for every PageData and never
\* raises; when a pipeline stage fails the page has the original title or
\* "Error Page" and no images, and its text is at most the first 1000
\* characters of the page text, or, when building that preview fails too, the
\* message "Error parsing content: <error>".
C12_FallbackIsPreviewOrError ==
    /\ Len(ex.processed_pages) = Len(ex.outcomes)
    /\ \A i \in FailedParses :
         /\ FallbackTitleAndImages(i)
         /\ IF ex.outcomes[i] = "fallback" THEN IsPreview(i)
            ELSE /\ ex.processed_pages[i].text_content.src = "error"
                 /\ ex.processed_pages[i].text_content.len >= 23

C12_Witness ==
    /\ Len(ex.outcomes) = 2
    /\ ex.outcomes = <<"fallback", "ultimate">>
    /\ crawled_pages[1].page_text.len > PreviewLen
    /\ crawled_pages[1].title = ""
    /\ ex.processed_pages[1].text_content = Text("page", PreviewLen)
    /\ ex.processed_pages[2].title = "Docs"

\* C13: the extraction loop produces exactly one processed page per crawled
\* page, in the same order, whether or not extraction of a page fails; a
\* failure on one page never stops the pages after it, and every page made by
\* the failure fallback is valid.
C13_OnePagePerCrawledPage ==
    /\ Len(ex.processed_pages) = ex.idx - 1
    /\ \A i \in DOMAIN ex.processed_pages :
         ex.processed_pages[i].url = crawled_pages[i].url
    /\ \A i \in FailedParses : is_valid(ex.processed_pages[i])
    /\ ex.pc # "loop" => Len(ex.processed_pages) = Len(crawled_pages)

C13_Witness ==
    /\ ex.pc = "extracted"
    /\ Len(crawled_pages) = 3
    /\ ex.outcomes = <<"ultimate", "ok", "fallback">>
    /\ crawled_pages[1].url # crawled_pages[2].url
    /\ crawled_pages[3].page_text.len = 0
    /\ Len(ex.processed_pages) = 3

\* ---------------------------------------------------------------------------
\* Order keys: PageSorter.generate_order_key, PageContent._generate_order_key
\* and PageSorter.sort_pages.  A string is the sequence of its characters.
\* ---------------------------------------------------------------------------

\* the characters of the paths and keys, in code-point order
Ascii ==
    <<"-", ".", "/", "0", "1", "2", "3", "4", "5", "6", "7", "8", "9", "_", "a", "b", "c", "d", "e", "f", "g", "h", "i", "j", "k", "l", "m", "n", "o", "p", "q", "r", "s", "t", "u", "v", "w", "x", "y", "z">>

\* ord(c), up to an order-preserving renumbering
Ord(c) == CHOOSE i \in DOMAIN Ascii : Ascii[i] = c

\* str.isdigit on one character
isdigit(c) == c \in {"0", "1", "2", "3", "4", "5", "6", "7", "8", "9"}

\* a < b on strings
RECURSIVE LexLess(_, _)
LexLess(a, b) ==
    IF a = <<>> THEN b # <<>>
    ELSE IF b = <<>> THEN FALSE
    ELSE IF Head(a) = Head(b) THEN LexLess(Tail(a), Tail(b))
    ELSE Ord(Head(a)) < Ord(Head(b))

\* a <= b on strings
LexLeq(a, b) == a = b \/ LexLess(a, b)

\* str.lstrip(c), str.rstrip(c), str.strip(c)
RECURSIVE lstrip(_, _)
lstrip(s, c) == IF s # <<>> /\ Head(s) = c THEN lstrip(Tail(s), c) ELSE s

RECURSIVE rstrip(_, _)
rstrip(s, c) ==
    IF s # <<>> /\ s[Len(s)] = c THEN rstrip(SubSeq(s, 1, Len(s) - 1), c) ELSE s

strip(s, c) == rstrip(lstrip(s, c), c)

\* str.startswith
startswith(s, p) == Len(s) >= Len(p) /\ SubSeq(s, 1, Len(p)) = p

\* str.replace(old, new), old not empty
RECURSIVE replace(_, _, _)
replace(s, old, new) ==
    IF s = <<>> THEN <<>>
    ELSE IF startswith(s, old)
    THEN new \o replace(SubSeq(s, Len(old) + 1, Len(s)), old, new)
    ELSE <<Head(s)>> \o replace(Tail(s), old, new)

\* str.split(c): cur is the part being read, out the parts already read
RECURSIVE split_from(_, _, _, _)
split_from(s, c, cur, out) ==
    IF s = <<>> THEN Append(out, cur)
    ELSE IF Head(s) = c THEN split_from(Tail(s), c, <<>>, Append(out, cur))
    ELSE split_from(Tail(s), c, Append(cur, Head(s)), out)

split(s, c) == split_from(s, c, <<>>, <<>>)

\* sep.join(parts)
RECURSIVE join(_, _)
join(parts, sep) ==
    IF parts = <<>> THEN <<>>
    ELSE IF Len(parts) = 1 THEN parts[1]
    ELSE parts[1] \o sep \o join(Tail(parts), sep)

\* str(n) for n >= 0
RECURSIVE decimal(_)
decimal(n) ==
    LET d == <<Ascii[Ord("0") + (n % 10)]>>
    IN IF n < 10 THEN d ELSE decimal(n \div 10) \o d

\* f"{n:03d}"
format_03d(n) ==
    LET d == decimal(n)
    IN IF Len(d) = 1 THEN <<"0", "0">> \o d
       ELSE IF Len(d) = 2 THEN <<"0">> \o d
       ELSE d

\* the value of a string of digits and single underscores between digits
RECURSIVE digits_value(_, _)
digits_value(s, acc) ==
    IF s = <<>> THEN acc
    ELSE IF Head(s) = "_" THEN digits_value(Tail(s), acc)
    ELSE digits_value(Tail(s), 10 * acc + (Ord(Head(s)) - Ord("0")))

\* int(s): None stands for ValueError
int(s) ==
    IF /\ s # <<>>
       /\ isdigit(s[1]) /\ isdigit(s[Len(s)])
       /\ \A i \in DOMAIN s : isdigit(s[i]) \/ s[i] = "_"
       /\ \A i \in 1..(Len(s) - 1) : ~(s[i] = "_" /\ s[i + 1] = "_")
    THEN Some(digits_value(s, 0))
    ELSE None

\* the positions of clean_part whose character is neither a digit nor "_"
TextPositions(clean_part) ==
    { i \in DOMAIN clean_part : ~isdigit(clean_part[i]) /\ clean_part[i] # "_" }

\* the smallest member of a non-empty set of positions
First(P) == CHOOSE i \in P : \A j \in P : i <= j

\* the numeric-prefix branch of _clean_path_part
pad_numeric_prefix(clean_part) ==
    IF TextPositions(clean_part) = {} THEN clean_part
    ELSE LET i == First(TextPositions(clean_part))
             num_part == rstrip(SubSeq(clean_part, 1, i - 1), "_")
             text_part == lstrip(SubSeq(clean_part, i, Len(clean_part)), "_")
         IN IF num_part = <<>> \/ int(num_part) = None THEN clean_part
            ELSE IF text_part # <<>>
            THEN format_03d(Val(int(num_part))) \o <<"_">> \o text_part
            ELSE format_03d(Val(int(num_part)))

\* PageSorter._clean_path_part
clean_path_part(part) ==
    IF part = <<>> THEN <<"e", "m", "p", "t", "y">>
    ELSE LET no_ext == replace(replace(part, <<".", "h", "t", "m", "l">>, <<>>), <<".", "h", "t", "m">>, <<>>)
             clean_part == replace(replace(no_ext, <<"-">>, <<"_">>), <<".">>, <<"_">>)
             padded == IF clean_part # <<>> /\ isdigit(clean_part[1])
                       THEN pad_numeric_prefix(clean_part) ELSE clean_part
         IN IF padded # <<>> THEN padded ELSE <<"u", "n", "n", "a", "m", "e", "d">>

\* "priority_pages", in its declared order: <<path, key>>
priority_pages ==
    <<<<<<"g", "e", "t", "t", "i", "n", "g", "-", "s", "t", "a", "r", "t", "e", "d">>,
        <<"0", "0", "1", "_", "g", "e", "t", "t", "i", "n", "g", "_", "s", "t", "a", "r", "t", "e", "d">>>>,
      <<<<"q", "u", "i", "c", "k", "s", "t", "a", "r", "t">>,
        <<"0", "0", "1", "_", "q", "u", "i", "c", "k", "s", "t", "a", "r", "t">>>>,
      <<<<"i", "n", "t", "r", "o", "d", "u", "c", "t", "i", "o", "n">>,
        <<"0", "0", "2", "_", "i", "n", "t", "r", "o", "d", "u", "c", "t", "i", "o", "n">>>>,
      <<<<"o", "v", "e", "r", "v", "i", "e", "w">>,
        <<"0", "0", "3", "_", "o", "v", "e", "r", "v", "i", "e", "w">>>>,
      <<<<"i", "n", "s", "t", "a", "l", "l", "a", "t", "i", "o", "n">>,
        <<"0", "0", "4", "_", "i", "n", "s", "t", "a", "l", "l", "a", "t", "i", "o", "n">>>>,
      <<<<"s", "e", "t", "u", "p">>,
        <<"0", "0", "5", "_", "s", "e", "t", "u", "p">>>>>>

\* the position of a path in priority_pages, 0 when it is not there
priority_index(path) ==
    IF \E i \in DOMAIN priority_pages : priority_pages[i][1] = path
    THEN CHOOSE i \in DOMAIN priority_pages : priority_pages[i][1] = path
    ELSE 0

\* the paths that stand for the root page
index_paths == { <<>>, <<"i", "n", "d", "e", "x">>, <<"i", "n", "d", "e", "x", ".", "h", "t", "m", "l">>, <<"h", "o", "m", "e">> }

\* [f"{i:03d}_{clean(part)}" for i, part in enumerate(parts)], sorter's cleaning
RECURSIVE order_parts(_, _)
order_parts(parts, i) ==
    IF parts = <<>> THEN <<>>
    ELSE <<format_03d(i) \o <<"_">> \o clean_path_part(Head(parts))>>
         \o order_parts(Tail(parts), i + 1)

\* PageSorter.generate_order_key (urlparse accepts every URL of the crawl, so
\* the except branch is not taken)
generate_order_key(u) ==
    LET path == strip(u.path, "/")
    IN IF path \in index_paths THEN <<"0", "0", "0", "_", "i", "n", "d", "e", "x">>
       ELSE IF priority_index(path) # 0 THEN priority_pages[priority_index(path)][2]
       ELSE join(order_parts(split(path, "/"), 0), <<"_">>)

\* the loop of PageContent._generate_order_key
RECURSIVE content_order_parts(_, _)
content_order_parts(parts, i) ==
    IF parts = <<>> THEN <<>>
    ELSE <<format_03d(i) \o <<"_">>
           \o replace(replace(Head(parts), <<".", "h", "t", "m", "l">>, <<>>), <<"-">>, <<"_">>)>>
         \o content_order_parts(Tail(parts), i + 1)

\* PageContent._generate_order_key
PageContent_generate_order_key(u) ==
    LET path == strip(u.path, "/")
    IN IF path \in { <<>>, <<"i", "n", "d", "e", "x">>, <<"i", "n", "d", "e", "x", ".", "h", "t", "m", "l">> } THEN <<"0", "0", "0", "_", "i", "n", "d", "e", "x">>
       ELSE join(content_order_parts(split(path, "/"), 0), <<"_">>)

\* the URLs whose keys are compared
SortUrls ==
    { Abs(<<"/">>, "", ""),
      Abs(<<"/", "i", "n", "d", "e", "x">>, "", ""),
      Abs(<<"/", "h", "o", "m", "e">>, "", ""),
      Abs(<<"/", "g", "e", "t", "t", "i", "n", "g", "-", "s", "t", "a", "r", "t", "e", "d">>, "", ""),
      Abs(<<"/", "q", "u", "i", "c", "k", "s", "t", "a", "r", "t">>, "", ""),
      Abs(<<"/", "i", "n", "t", "r", "o", "d", "u", "c", "t", "i", "o", "n", "/">>, "", ""),
      Abs(<<"/", "o", "v", "e", "r", "v", "i", "e", "w">>, "", ""),
      Abs(<<"/", "i", "n", "s", "t", "a", "l", "l", "a", "t", "i", "o", "n">>, "", ""),
      Abs(<<"/", "s", "e", "t", "u", "p">>, "", ""),
      Abs(<<"/", "f", "e", "a", "t", "u", "r", "e", "s">>, "", ""),
      Abs(<<"/", "a", "p", "i", "/", "r", "e", "f", "e", "r", "e", "n", "c", "e">>, "", ""),
      Abs(<<"/", "s", "e", "t", "t", "i", "n", "g", "s">>, "", ""),
      Abs(<<"/", "0", "1", "-", "i", "n", "t", "r", "o">>, "", ""),
      Abs(<<"/", "x", ".", "h", "t", "m">>, "", ""),
      Abs(<<"/", "g", "u", "i", "d", "e", "/", "g", "e", "t", "t", "i", "n", "g", "-", "s", "t", "a", "r", "t", "e", "d">>, "", ""),
      Abs(<<"/", "z", "e", "t", "a">>, "", "") }

\* the longest list of pages that is sorted
MaxSort == 2

\* the state of every other component while the keys are computed
SortIdle ==
    /\ IdleUtilities
    /\ gen = [pc |-> "idle"]
    /\ ex = [pc |-> "idle"]
    /\ mn = [pc |-> "idle"]
    /\ pages = <<>>
    /\ deduped = <<>>
    /\ pc = "done"
    /\ config = DefaultConfig
    /\ delays = NoDelays
    /\ url_manager = URLManagerInit(BASE_URL, None)
    /\ accepted = <<>>
    /\ IdleClient
    /\ site = "none"
    /\ url = None
    /\ crawled_pages = <<>>
    /\ fetch_log = <<>>

\* two URLs whose keys are to be compared
KeyInit ==
    /\ \E a, b \in SortUrls : so = [pc |-> "urls", urls |-> <<a, b>>, keys |-> <<>>]
    /\ SortIdle

\* PageSorter.generate_order_key is called on each URL
GenerateOrderKeys ==
    /\ so.pc = "urls"
    /\ so' = [so EXCEPT !.pc = "keys",
                        !.keys = [i \in DOMAIN so.urls |-> generate_order_key(so.urls[i])]]
    /\ UNCHANGED <<crawler_vars, utilities, pc, pages, deduped, gen, ex, mn>>

KeyNext == GenerateOrderKeys

KeySpec == KeyInit /\ [][KeyNext]_vars

\* the classes of paths the ordering is stated for
IsRootPath(u) == strip(u.path, "/") \in index_paths
IsPriorityPath(u) == priority_index(strip(u.path, "/")) # 0
IsGeneralPath(u) == ~IsRootPath(u) /\ ~IsPriorityPath(u)

\* C14: under lexicographic comparison the key of the root path is less than or
\* equal to the key of every other path, the keys of the priority slugs are in
\* their declared order, and the key of every priority slug is smaller than
\* the key of every non-root, non-priority path.
C14_RootThenPriorityThenGeneral ==
    so.pc = "keys" =>
        LET a == so.urls[1]
            b == so.urls[2]
        IN /\ IsRootPath(a) => LexLeq(so.keys[1], so.keys[2])
           /\ (IsPriorityPath(a) /\ IsPriorityPath(b)
                 /\ priority_index(strip(a.path, "/")) < priority_index(strip(b.path, "/")))
                => LexLess(so.keys[1], so.keys[2])
           /\ (IsPriorityPath(a) /\ IsGeneralPath(b)) => LexLess(so.keys[1], so.keys[2])

\* the dataclass PageContent as the extractor builds it: __post_init__ fills
\* an empty order_key
PageContent_order_key(u, order_key) ==
    [url |-> u,
     order_key |-> IF order_key = <<>> THEN PageContent_generate_order_key(u)
                   ELSE order_key]

\* "for page in pages: if not page.order_key: page.order_key = ..."
fill_order_keys(ps) ==
    [i \in DOMAIN ps |->
        IF ps[i].order_key = <<>>
        THEN [ps[i] EXCEPT !.order_key = generate_order_key(ps[i].url)]
        ELSE ps[i]]

\* sorted(pages, key=lambda p: p.order_key): a stable insertion
RECURSIVE insert_sorted(_, _)
insert_sorted(sorted, page) ==
    IF sorted = <<>> THEN <<page>>
    ELSE IF LexLess(page.order_key, Head(sorted).order_key) THEN <<page>> \o sorted
    ELSE <<Head(sorted)>> \o insert_sorted(Tail(sorted), page)

RECURSIVE sorted_by_order_key(_, _)
sorted_by_order_key(ps, acc) ==
    IF ps = <<>> THEN acc
    ELSE sorted_by_order_key(Tail(ps), insert_sorted(acc, Head(ps)))

\* PageSorter.sort_pages
sort_pages(ps) == sorted_by_order_key(fill_order_keys(ps), <<>>)

\* the URLs of the crawled pages, in crawl order
SortInit ==
    /\ \E us \in SeqsUpTo(SortUrls, MaxSort) :
         so = [pc |-> "urls", urls |-> us, pages |-> <<>>, sorted_pages |-> <<>>]
    /\ SortIdle

\* the extractor builds one PageContent per URL, without an order key
BuildPages ==
    /\ so.pc = "urls"
    /\ so' = [so EXCEPT !.pc = "built",
                        !.pages = [i \in DOMAIN so.urls |->
                                      PageContent_order_key(so.urls[i], <<>>)]]
    /\ UNCHANGED <<crawler_vars, utilities, pc, pages, deduped, gen, ex, mn>>

\* generate_pdf sorts the pages
SortPages ==
    /\ so.pc = "built"
    /\ so' = [so EXCEPT !.pc = "sorted", !.sorted_pages = sort_pages(so.pages)]
    /\ UNCHANGED <<crawler_vars, utilities, pc, pages, deduped, gen, ex, mn>>

SortNext == BuildPages \/ SortPages

SortSpec == SortInit /\ [][SortNext]_vars

\* C15: the order key that decides the document order is the Page Sorter's
\* key: for every page built by the extractor and passed through generate_pdf,
\* page.order_key at sort time equals PageSorter.generate_order_key(page.url),
\* so the assembled order is ascending in the Page Sorter's key.
C15_SortedBySorterKey ==
    /\ so.pc = "built" =>
         \A i \in DOMAIN so.pages :
            so.pages[i].order_key = generate_order_key(so.pages[i].url)
    /\ so.pc = "sorted" =>
         \A i, j \in DOMAIN so.sorted_pages :
            i < j => LexLeq(generate_order_key(so.sorted_pages[i].url),
                            generate_order_key(so.sorted_pages[j].url))

\* ---------------------------------------------------------------------------
\* main: configuration overrides, crawl, extraction, PDF, handlers, finally
\* ---------------------------------------------------------------------------

\* Config._validate_config, on the values the command line can override
validate_config(c) ==
    /\ IF c.MAX_PAGES = None THEN TRUE ELSE Val(c.MAX_PAGES) > 0
    /\ c.DELAY_BETWEEN_REQUESTS >= 0
    /\ c.OUTPUT_FILE # <<>>
    /\ EndsWith(c.OUTPUT_FILE, <<".pdf">>)

\* the command lines main is run with: --max-pages (None when absent),
\* --delay and --output
Args ==
    [max_pages : {None, Some(0 - 1), Some(0), Some(2)},
     delay : {0 - 1, 0, 1},
     output : { <<"cursor_docs", ".pdf">>, <<"out", ".txt">> }]

\* "if args.output: ... if args.max_pages: ... if args.delay: ..."
override(c, args) ==
    [OUTPUT_FILE |-> IF args.output # <<>> THEN args.output ELSE c.OUTPUT_FILE,
     MAX_PAGES |-> IF args.max_pages # None /\ Val(args.max_pages) # 0
                   THEN args.max_pages ELSE c.MAX_PAGES,
     DELAY_BETWEEN_REQUESTS |-> IF args.delay # 0 THEN args.delay
                                ELSE c.DELAY_BETWEEN_REQUESTS]

\* a finally block that lets a failure of crawler.close() out of main
finally_status_close_escapes(pending, close_ok) ==
    IF close_ok THEN pending ELSE "raised"

\* "finally: try: crawler.close() except: pass": what main returns
finally_status(pending, close_ok) == pending

\* main has built its configuration and its URLManager (line 107)
MainInit ==
    /\ \E args \in Args :
        /\ validate_config(DefaultConfig)
        /\ config = override(DefaultConfig, args)
        /\ mn = [pc |-> "try", args |-> args, crawler |-> "unbound",
                 crawled_pages |-> None, error |-> "none", fetches |-> 0,
                 backup |-> None, backup_error |-> FALSE, processed |-> 0,
                 pdf_success |-> None,
                 closes |-> 0, close_ok |-> TRUE, pending |-> "none",
                 status |-> "none"]
    /\ site = "small"
    /\ IdleUtilities
    /\ url_manager = URLManagerInit(BASE_URL, config.MAX_PAGES)
    /\ accepted = [i \in 1..Len(url_manager.urls_to_visit) |->
                       Accepted(url_manager.base_url, url_manager.urls_to_visit[i])]
    /\ delays = NoDelays
    /\ gen = [pc |-> "idle"]
    /\ ex = [pc |-> "idle"]
    /\ so = [pc |-> "idle"]
    /\ IdleClient
    /\ pc = "idle"
    /\ url = None
    /\ crawled_pages = <<>>
    /\ fetch_log = <<>>
    /\ IdleDedup

\* "crawler = SeleniumCrawler(config, url_manager)" and the call of crawl_all
MainCreateCrawler ==
    /\ mn.pc = "try"
    /\ mn' = [mn EXCEPT !.pc = "crawl", !.crawler = "created"]
    /\ pc' = "loop"
    /\ UNCHANGED <<crawler_vars, utilities, pages, deduped, gen, ex, so>>

\* webdriver.Chrome raises in SeleniumCrawler.__init__: crawler stays unbound
MainCreateCrawlerFails ==
    /\ mn.pc = "try"
    /\ mn' = [mn EXCEPT !.pc = "except Exception", !.error = "Exception"]
    /\ UNCHANGED <<crawler_vars, utilities, pc, pages, deduped, gen, ex, so>>

\* the print of crawl_page (line 27, before its try block) raises: the error
\* leaves crawl_all, whose list of crawled pages is lost to main
CrawlRaises ==
    /\ mn.pc = "crawl"
    /\ pc = "fetch"
    /\ pc' = "aborted"
    /\ mn' = [mn EXCEPT !.pc = "except Exception", !.error = "Exception",
                        !.fetches = delays.fetches]
    /\ UNCHANGED <<crawler_vars, utilities, pages, deduped, gen, ex, so>>

\* KeyboardInterrupt while crawl_all runs: no handler of the crawler catches it
Interrupt ==
    /\ mn.pc = "crawl"
    /\ pc \in {"loop", "fetch"}
    /\ pc' = "aborted"
    /\ mn' = [mn EXCEPT !.pc = "except KeyboardInterrupt",
                        !.error = "KeyboardInterrupt",
                        !.fetches = delays.fetches]
    /\ UNCHANGED <<crawler_vars, utilities, pages, deduped, gen, ex, so>>

\* "crawled_pages = crawler.crawl_all()" returns; "if not crawled_pages: return 1"
MainCrawlReturn ==
    /\ mn.pc = "crawl"
    /\ pc = "done"
    /\ pc' = "returned"
    /\ mn' = IF crawled_pages = <<>>
             THEN [mn EXCEPT !.pc = "finally", !.crawled_pages = Some(crawled_pages),
                             !.pending = "return 1"]
             ELSE [mn EXCEPT !.pc = "process", !.crawled_pages = Some(crawled_pages)]
    /\ UNCHANGED <<crawler_vars, utilities, pages, deduped, gen, ex, so>>

\* the extraction loop, one processed page per crawled page;
\* "if not processed_pages: return 1"
MainProcess ==
    /\ mn.pc = "process"
    /\ LET n == Len(Val(mn.crawled_pages)) IN
        mn' = IF n = 0 THEN [mn EXCEPT !.pc = "finally", !.pending = "return 1"]
              ELSE [mn EXCEPT !.pc = "generate", !.processed = n]
    /\ UNCHANGED <<crawler_vars, utilities, pc, pages, deduped, gen, ex, so>>

\* a report or print between the crawl and the end of the try block raises
MainStageRaises ==
    /\ mn.pc \in {"process", "generate", "report"}
    /\ mn' = [mn EXCEPT !.pc = "except Exception", !.error = "Exception"]
    /\ UNCHANGED <<crawler_vars, utilities, pc, pages, deduped, gen, ex, so>>

\* "pdf_success = pdf_generator.generate_pdf(...)"
MainGeneratePdf ==
    /\ mn.pc = "generate"
    /\ \E pdf_success \in BOOLEAN :
        mn' = [mn EXCEPT !.pc = "report", !.pdf_success = Some(pdf_success)]
    /\ UNCHANGED <<crawler_vars, utilities, pc, pages, deduped, gen, ex, so>>

\* a main that reports success whatever generate_pdf returned
report_status_always_0(pdf_success) == "return 0"

\* "if pdf_success: ... return 0 else: ... return 1"
report_status(pdf_success) == IF pdf_success THEN "return 0" ELSE "return 1"

\* the report of the PDF generation and the totals are printed, main returns
MainReport ==
    /\ mn.pc = "report"
    /\ mn' = [mn EXCEPT !.pc = "finally",
                        !.pending = report_status(Val(mn.pdf_success))]
    /\ UNCHANGED <<crawler_vars, utilities, pc, pages, deduped, gen, ex, so>>

\* "except KeyboardInterrupt: ... return 1"
MainExceptKeyboardInterrupt ==
    /\ mn.pc = "except KeyboardInterrupt"
    /\ mn' = [mn EXCEPT !.pc = "finally", !.pending = "return 1"]
    /\ UNCHANGED <<crawler_vars, utilities, pc, pages, deduped, gen, ex, so>>

\* "except Exception as e": the backup is written when main's crawled_pages is
\* bound and not empty; the write itself may fail
MainExceptException ==
    /\ mn.pc = "except Exception"
    /\ IF mn.crawled_pages # None /\ Val(mn.crawled_pages) # <<>>
       THEN \E written \in BOOLEAN :
              mn' = [mn EXCEPT !.pc = "finally", !.pending = "return 1",
                               !.backup = IF written THEN mn.crawled_pages ELSE None,
                               !.backup_error = ~written]
       ELSE mn' = [mn EXCEPT !.pc = "finally", !.pending = "return 1"]
    /\ UNCHANGED <<crawler_vars, utilities, pc, pages, deduped, gen, ex, so>>

\* "finally": crawler.close() inside try/except-pass (a NameError when crawler
\* is unbound), then main returns
MainFinally ==
    /\ mn.pc = "finally"
    /\ \E close_ok \in BOOLEAN :
        mn' = [mn EXCEPT !.pc = "returned",
                         !.closes = IF mn.crawler = "created" THEN @ + 1 ELSE @,
                         !.close_ok = close_ok,
                         !.status = finally_status(mn.pending, close_ok)]
    /\ UNCHANGED <<crawler_vars, utilities, pc, pages, deduped, gen, ex, so>>

MainNext ==
    \/ MainCreateCrawler
    \/ MainCreateCrawlerFails
    \/ CrawlStop
    \/ CrawlDequeue
    \/ CrawlPageError
    \/ CrawlPageInvalid
    \/ CrawlPageOk
    \/ CrawlRaises
    \/ Interrupt
    \/ MainCrawlReturn
    \/ MainProcess
    \/ MainStageRaises
    \/ MainGeneratePdf
    \/ MainReport
    \/ MainExceptKeyboardInterrupt
    \/ MainExceptException
    \/ MainFinally

MainSpec == MainInit /\ [][MainNext]_vars

\* C16: on every exit path of main taken after the crawler was created,
\* crawler.close() is invoked before main returns, and a failure inside
\* close() neither changes main's return value nor escapes.
C16_CloseOnEveryExit ==
    (mn.pc = "returned" /\ mn.crawler = "created") =>
        /\ mn.closes = 1
        /\ mn.status = mn.pending
        /\ mn.status \in {"return 0", "return 1"}

C16_Witness ==
    /\ mn.pc = "returned"
    /\ mn.crawler = "created"
    /\ mn.error = "KeyboardInterrupt"
    /\ ~mn.close_ok
    /\ mn.closes = 1
    /\ mn.status = "return 1"

\* C17: whenever the pipeline ends with a non-interrupt error after at least
\* one page has been fetched, also when the error is raised while the crawl
\* loop is running, a backup listing every page fetched so far is written
\* before the process exits (unless writing the backup file itself fails).
C17_BackupOnError ==
    (/\ mn.pc = "returned"
     /\ mn.error = "Exception"
     /\ crawled_pages # <<>>
     /\ ~mn.backup_error)
        => mn.backup = Some(crawled_pages)

\* C18: when a user interrupt arrives during the crawl after at least one page
\* has been crawled, no further fetch is started and the already-crawled pages
\* are persisted as a backup before the process exits.
C18_BackupOnInterrupt ==
    (/\ mn.pc = "returned"
     /\ mn.error = "KeyboardInterrupt"
     /\ crawled_pages # <<>>)
        => /\ delays.fetches = mn.fetches
           /\ mn.backup = Some(crawled_pages)

\* C20: the crawl never starts with an invalid configuration: whenever the
\* crawl loop is started by main the effective page cap is unset or positive,
\* the effective delay is not negative and the effective output path ends in
\* .pdf; a violation, also one brought by an override, fails before the first
\* fetch.
C20_CrawlOnlyWithValidConfig ==
    (mn.crawler = "created" \/ delays.fetches > 0) => validate_config(config)

\* the three conditions of a successful run
RunSucceeded ==
    /\ crawled_pages # <<>>
    /\ mn.processed >= 1
    /\ mn.pdf_success = Some(TRUE)

\* C22 as stated: main returns status 0 exactly when at least one page was
\* crawled, at least one page was processed and generate_pdf returned True; on
\* every other path it returns a non-zero status.
C22_ZeroIffPdfGenerated ==
    mn.pc = "returned" =>
        /\ mn.status \in {"return 0", "return 1"}
        /\ mn.status = "return 0" <=> RunSucceeded

\* C22, amended: main returns status 0 exactly when at least one page was
\* crawled, at least one page was processed, generate_pdf returned True and
\* nothing raised in the reporting that follows it; on every other path it
\* returns a non-zero status.
C22_ZeroIffPdfGeneratedAndReported ==
    mn.pc = "returned" =>
        /\ mn.status \in {"return 0", "return 1"}
        /\ mn.status = "return 0" <=> (RunSucceeded /\ mn.error = "none")

C22_Witness ==
    /\ mn.pc = "returned"
    /\ mn.status = "return 0"
    /\ Len(crawled_pages) >= 2
    /\ mn.processed = Len(crawled_pages)
    /\ ~mn.close_ok

\* ---------------------------------------------------------------------------
\* The frontier during the crawl
\* ---------------------------------------------------------------------------

\* the canonical URLs add_url has accepted so far
AcceptedCanon == { accepted[i].canon : i \in DOMAIN accepted }

\* C23: once add_url has accepted a canonical URL, no later add_url of the same
\* canonical URL is accepted, whatever dequeues, marks and fetch outcomes
\* (a failed fetch of that URL included) happen in between; so total_found
\* counts distinct URLs.
C23_AcceptedOnce ==
    /\ \A i, j \in DOMAIN accepted : i < j => accepted[i].canon # accepted[j].canon
    /\ Stats.total_found = Cardinality(AcceptedCanon)

\* C24: the crawl loop never fetches a URL that is already in the visited set:
\* every URL get_next_url returns inside crawl_all is not yet marked visited,
\* also when an earlier page redirected to it and it was marked visited as a
\* final URL while still queued.
C24_NeverFetchVisited ==
    pc = "fetch" => Val(url) \notin url_manager.visited_urls

\* max(a, b)
max(a, b) == IF a >= b THEN a ELSE b

\* the success_rate of get_stats, in hundredths of a percent (the two
\* decimals round() keeps), rounded down
success_rate(m) == (m.stats.visited * 10000) \div max(m.stats.total_found, 1)

\* C25: in every state the crawl loop reaches, the visited counter is at most
\* total_found, so the success rate of get_stats lies between 0 and 100.
C25_VisitedAtMostFound ==
    /\ Stats.visited <= Stats.total_found
    /\ success_rate(url_manager) >= 0
    /\ success_rate(url_manager) <= 10000

\* crawl_all runs on: no step of the loop waits forever
CrawlLiveSpec == CrawlSpec /\ WF_vars(CrawlNext)

\* C26: on a finite site crawl_all terminates, with or without a page cap;
\* with a cap the number of fetch attempts and the number of returned pages
\* are both at most the cap.
C26_TerminatesWithinCap ==
    /\ <>(pc = "done")
    /\ [](config.MAX_PAGES # None =>
            /\ delays.fetches <= Val(config.MAX_PAGES)
            /\ Len(crawled_pages) <= Val(config.MAX_PAGES))

C26_Witness ==
    /\ pc = "done"
    /\ config.MAX_PAGES = Some(2)
    /\ delays.fetches = 2
    /\ Len(crawled_pages) = 1
    /\ has_urls(url_manager) = FALSE

\* ---------------------------------------------------------------------------
\* Numbered path segments
\* ---------------------------------------------------------------------------

\* sibling pages whose only path segment begins with digits
NumberedUrls ==
    { Abs(<<"/", "2", "-", "i", "n", "t", "r", "o">>, "", ""),
      Abs(<<"/", "1", "0", "-", "u", "s", "a", "g", "e">>, "", ""),
      Abs(<<"/", "9", "-", "z">>, "", ""),
      Abs(<<"/", "1", "0", "0", "-", "a", "p", "i">>, "", ""),
      Abs(<<"/", "0", "2", "-", "s", "e", "t", "u", "p">>, "", ""),
      Abs(<<"/", "2">>, "", ""),
      Abs(<<"/", "1", "0">>, "", ""),
      Abs(<<"/", "7">>, "", ""),
      Abs(<<"/", "1", "2", "3">>, "", ""),
      Abs(<<"/", "0", "4", "5">>, "", "") }

\* two numbered URLs whose keys are to be compared
NumberedKeyInit ==
    /\ \E a, b \in NumberedUrls : so = [pc |-> "urls", urls |-> <<a, b>>, keys |-> <<>>]
    /\ SortIdle

NumberedKeySpec == NumberedKeyInit /\ [][KeyNext]_vars

\* the digits a segment begins with
RECURSIVE leading_digits(_)
leading_digits(s) ==
    IF s # <<>> /\ isdigit(Head(s)) THEN <<Head(s)>> \o leading_digits(Tail(s))
    ELSE <<>>

\* the only segment of the path of u, the value of its numeric prefix, and
\* whether the segment is nothing but digits
Segment(u) == strip(u.path, "/")
PrefixValue(u) == digits_value(leading_digits(Segment(u)), 0)
IsPurelyNumeric(u) == leading_digits(Segment(u)) = Segment(u)

\* C29: for sibling segments that begin with digits, generate_order_key pads
\* the numeric prefix to 3 digits so that key order follows the numeric value
\* of the prefix for all values below 1000, for segments with a text suffix
\* (2-intro before 10-usage) and for purely numeric segments (2 before 10).
C29_NumericPrefixOrder ==
    so.pc = "keys" =>
        LET a == so.urls[1]
            b == so.urls[2]
        IN (/\ IsPurelyNumeric(a) = IsPurelyNumeric(b)
            /\ PrefixValue(a) < PrefixValue(b)
            /\ PrefixValue(b) < 1000)
             => LexLess(so.keys[1], so.keys[2])

(***************************************************************************)
(* error_handler.py: ErrorRecovery.retry_with_backoff.  rec holds the      *)
(* ErrorRecovery object (max_retries >= 0, base_delay >= 0, the delay in   *)
(* whole seconds), the loop variable, last_exception, and the history of   *)
(* the run: the outcome of every call of the operation, every delay slept  *)
(* and the order in which calls and sleeps happened.                       *)
(***************************************************************************)
MaxRetries == 3

\* what one call of the operation can do: return a value, raise an Exception,
\* or raise a BaseException that "except Exception" does not catch
Returns == {"a", "b"}
Exceptions == {"ValueError", "OSError"}
BaseExceptions == {"KeyboardInterrupt"}

BaseDelays == {0, 1, 2}

RECURSIVE pow2(_)
pow2(n) == IF n = 0 THEN 1 ELSE 2 * pow2(n - 1)

\* "delay = self.base_delay * (2 ** attempt)"
backoff_delay(base_delay, attempt) == base_delay * pow2(attempt)

\* "if attempt < self.max_retries" with the test widened to the last attempt
sleeps_before_retry_always(attempt, max_retries) == attempt <= max_retries

\* "if attempt < self.max_retries"
sleeps_before_retry(attempt, max_retries) == attempt < max_retries

\* no crawler, no deduplication and no pipeline stage is running
IdleCrawler ==
    /\ gen = [pc |-> "idle"]
    /\ ex = [pc |-> "idle"]
    /\ so = [pc |-> "idle"]
    /\ mn = [pc |-> "idle"]
    /\ config = DefaultConfig
    /\ url_manager = URLManagerInit(BASE_URL, None)
    /\ accepted = <<>>
    /\ delays = NoDelays
    /\ IdleClient
    /\ IdleCrawl
    /\ IdleDedup

RetryInit ==
    /\ \E m \in 0..MaxRetries, d \in BaseDelays :
         rec = [pc |-> "call", max_retries |-> m, base_delay |-> d, attempt |-> 0,
                last_exception |-> None, calls |-> <<>>, sleeps |-> <<>>,
                log |-> <<>>, result |-> None]
    /\ dom = [pc |-> "idle"]
    /\ IdleCrawler

RetryUnchanged ==
    UNCHANGED <<crawler_vars, pc, pages, deduped, pipeline, dom>>

\* "return operation(*args, **kwargs)" returns
RetryCallOk ==
    /\ rec.pc = "call"
    /\ \E v \in Returns :
         rec' = [rec EXCEPT !.pc = "returned", !.calls = Append(@, v),
                            !.log = Append(@, "call"), !.result = Some(v)]
    /\ RetryUnchanged

\* the call raises an Exception: the except branch, then the next turn of
\* "for attempt in range(self.max_retries + 1)", or "raise last_exception"
\* when the range is used up
RetryCallFails ==
    /\ rec.pc = "call"
    /\ \E e \in Exceptions :
         LET slept == sleeps_before_retry(rec.attempt, rec.max_retries)
             delay == backoff_delay(rec.base_delay, rec.attempt)
             more == rec.attempt + 1 < rec.max_retries + 1
         IN  rec' = [rec EXCEPT
                 !.last_exception = Some(e),
                 !.calls = Append(@, e),
                 !.sleeps = IF slept THEN Append(@, delay) ELSE @,
                 !.log = IF slept THEN @ \o <<"call", "sleep">> ELSE Append(@, "call"),
                 !.attempt = @ + 1,
                 !.pc = IF more THEN "call" ELSE "raised",
                 !.result = IF more THEN None ELSE Some(e)]
    /\ RetryUnchanged

\* the call raises a BaseException, which leaves retry_with_backoff at once
RetryCallInterrupted ==
    /\ rec.pc = "call"
    /\ \E e \in BaseExceptions :
         rec' = [rec EXCEPT !.pc = "raised", !.calls = Append(@, e),
                            !.log = Append(@, "call"), !.result = Some(e)]
    /\ RetryUnchanged

RetryNext ==
    \/ RetryCallOk
    \/ RetryCallFails
    \/ RetryCallInterrupted

RetrySpec == RetryInit /\ [][RetryNext]_vars

\* C27: retry_with_backoff calls the operation at most max_retries + 1 times;
\* a call that returns is the last one and its value is the result; calls and
\* sleeps alternate, starting and (once the function is left) ending with a
\* call, the i-th sleep lasting base_delay * 2^(i-1); and when max_retries + 1
\* calls have failed the exception raised is the one of the last call.
C27_RetryWithBackoff ==
    /\ Len(rec.calls) <= rec.max_retries + 1
    /\ \A i \in DOMAIN rec.calls :
         rec.calls[i] \in Returns =>
             /\ i = Len(rec.calls)
             /\ rec.pc = "returned"
             /\ rec.result = Some(rec.calls[i])
    /\ \A i \in DOMAIN rec.log : rec.log[i] = IF i % 2 = 1 THEN "call" ELSE "sleep"
    /\ \A i \in DOMAIN rec.sleeps : rec.sleeps[i] = backoff_delay(rec.base_delay, i - 1)
    /\ Len(rec.log) = Len(rec.calls) + Len(rec.sleeps)
    /\ rec.pc \in {"returned", "raised"} =>
         /\ rec.log[Len(rec.log)] = "call"
         /\ Len(rec.sleeps) = Len(rec.calls) - 1
    /\ rec.pc = "raised" =>
         /\ rec.result = Some(rec.calls[Len(rec.calls)])
         /\ rec.calls[Len(rec.calls)] \in Exceptions => Len(rec.calls) = rec.max_retries + 1

\* three failed calls, two sleeps of 2 and 4 seconds, and the third call's
\* exception raised
C27_Witness ==
    /\ rec.pc = "raised"
    /\ rec.max_retries = 2
    /\ rec.calls = <<"ValueError", "ValueError", "OSError">>
    /\ rec.sleeps = <<2, 4>>
    /\ rec.result = Some("OSError")

(***************************************************************************)
(* error_handler.py: the decorators handle_disk_space_error and            *)
(* handle_memory_error.  rec holds one call of a wrapped function: which   *)
(* decorator wraps it, the batch_size keyword argument (None when the      *)
(* caller passes none), every invocation of the function with the          *)
(* batch_size it saw, the remediations that ran, and how the call ended.   *)
(***************************************************************************)
ENOSPC == 28

\* what one invocation of the wrapped function can do
Invocations ==
    { [kind |-> "return", errno |-> 0, value |-> v] : v \in Returns }
    \cup { [kind |-> "OSError", errno |-> n, value |-> ""] : n \in {ENOSPC, 13, 2} }
    \cup { [kind |-> k, errno |-> 0, value |-> ""] : k \in {"MemoryError", "ValueError"} }

BatchSizes == {None, Some(1), Some(8), Some(9)}

Raised(kind) == [kind |-> kind, errno |-> 0, value |-> ""]

\* "if e.errno == 28" with the test dropped: every OSError is remediated
is_disk_full_any_errno(e) == e.kind = "OSError"

\* "except OSError as e: if e.errno == 28"
is_disk_full(e) == e.kind = "OSError" /\ e.errno = ENOSPC

\* the error each wrapper remediates
remediated(wrapper, e) ==
    IF wrapper = "disk" THEN is_disk_full(e) ELSE e.kind = "MemoryError"

\* "cleanup_temp_files()" / "gc.collect()"
remediation(wrapper) == IF wrapper = "disk" THEN "cleanup_temp_files" ELSE "gc.collect"

\* "if 'batch_size' in kwargs: kwargs['batch_size'] = max(1, kwargs['batch_size'] // 2)"
reduced_batch_size(wrapper, b) ==
    IF wrapper = "memory" /\ b # None THEN Some(max(1, Val(b) \div 2)) ELSE b

\* the retry's "except OSError" / "except MemoryError"
retry_error(wrapper, e) ==
    IF wrapper = "disk" /\ e.kind = "OSError" THEN Raised("DiskSpaceError")
    ELSE IF wrapper = "memory" /\ e.kind = "MemoryError" THEN Raised("InsufficientMemoryError")
    ELSE e

WrapInit ==
    /\ \E w \in {"disk", "memory"}, b \in BatchSizes :
         rec = [pc |-> "first", wrapper |-> w, batch_size |-> b, calls |-> <<>>,
                seen |-> <<>>, remediations |-> <<>>, result |-> None]
    /\ dom = [pc |-> "idle"]
    /\ IdleCrawler

\* wrapper: the first "return func(*args, **kwargs)" and the except branch up to
\* the retry
WrapperFirstCall ==
    /\ rec.pc = "first"
    /\ \E o \in Invocations :
         rec' = [rec EXCEPT
                 !.calls = Append(@, o),
                 !.seen = Append(@, rec.batch_size),
                 !.remediations = IF remediated(rec.wrapper, o)
                                  THEN Append(@, remediation(rec.wrapper)) ELSE @,
                 !.batch_size = IF remediated(rec.wrapper, o)
                                THEN reduced_batch_size(rec.wrapper, @) ELSE @,
                 !.pc = IF o.kind = "return" THEN "returned"
                        ELSE IF remediated(rec.wrapper, o) THEN "retry" ELSE "raised",
                 !.result = IF remediated(rec.wrapper, o) THEN None ELSE Some(o)]
    /\ RetryUnchanged

\* wrapper: the second "return func(*args, **kwargs)" and its except clause
WrapperRetry ==
    /\ rec.pc = "retry"
    /\ \E o \in Invocations :
         rec' = [rec EXCEPT
                 !.calls = Append(@, o),
                 !.seen = Append(@, rec.batch_size),
                 !.pc = IF o.kind = "return" THEN "returned" ELSE "raised",
                 !.result = Some(retry_error(rec.wrapper, o))]
    /\ RetryUnchanged

WrapNext ==
    \/ WrapperFirstCall
    \/ WrapperRetry

WrapSpec == WrapInit /\ [][WrapNext]_vars

\* the first invocation failed with the error the wrapper remediates
FirstRemediated ==
    /\ rec.calls # <<>>
    /\ IF rec.wrapper = "disk"
       THEN rec.calls[1].kind = "OSError" /\ rec.calls[1].errno = ENOSPC
       ELSE rec.calls[1].kind = "MemoryError"

WrapFinished == rec.pc \in {"returned", "raised"}

\* C28: a wrapped function is invoked at most twice.  After a first invocation
\* that failed with errno 28 (disk wrapper) or MemoryError (memory wrapper)
\* exactly one remediation has run and, once the call is over, exactly one
\* retry; a retry failing with the same kind of error ends in DiskSpaceError /
\* InsufficientMemoryError.  Any other outcome of the first invocation ends the
\* call with that outcome, no remediation and no second invocation.
C28_OneRemediationOneRetry ==
    /\ Len(rec.calls) <= 2
    /\ FirstRemediated =>
         /\ rec.remediations = <<remediation(rec.wrapper)>>
         /\ WrapFinished =>
              /\ Len(rec.calls) = 2
              /\ rec.calls[2].kind = rec.calls[1].kind =>
                   /\ rec.pc = "raised"
                   /\ rec.result = Some(Raised(IF rec.wrapper = "disk"
                                               THEN "DiskSpaceError"
                                               ELSE "InsufficientMemoryError"))
              /\ rec.calls[2].kind = "return" =>
                   rec.pc = "returned" /\ rec.result = Some(rec.calls[2])
    /\ (rec.calls # <<>> /\ ~FirstRemediated) =>
         /\ rec.remediations = <<>>
         /\ Len(rec.calls) = 1
         /\ rec.result = Some(rec.calls[1])
         /\ rec.pc = IF rec.calls[1].kind = "return" THEN "returned" ELSE "raised"

\* a disk-full first invocation, one cleanup, and a retry that fails with
\* another OSError
C28_Witness ==
    /\ rec.pc = "raised"
    /\ rec.wrapper = "disk"
    /\ Len(rec.calls) = 2
    /\ rec.calls[1].kind = "OSError" /\ rec.calls[1].errno = ENOSPC
    /\ rec.calls[2].kind = "OSError"
    /\ rec.remediations = <<"cleanup_temp_files">>
    /\ rec.result = Some(Raised("DiskSpaceError"))

(***************************************************************************)
(* content_parser.py: the parsed document.  dom.nodes is the sequence of   *)
(* the elements below <body> in document order; an element names its       *)
(* parent by position (0 for <body>), carries the attributes the parser    *)
(* reads ("" for an attribute that is absent) and at most one text string  *)
(* of its own, placed before its children.  dom.alive is the set of        *)
(* elements still in the tree.  Strings are TLA+ strings, taken apart      *)
(* with Len, SubSeq and \o.                                                *)
(***************************************************************************)
Element(tag, parent) ==
    [tag |-> tag, parent |-> parent, class |-> <<>>, id |-> "", role |-> "",
     data_name |-> "", aria_hidden |-> "", aria_label |-> "", src |-> "",
     alt |-> "", width |-> "", height |-> "", style |-> "", loading |-> "",
     text |-> ""]

\* the characters of a string
chars(s) == [i \in 1..Len(s) |-> SubSeq(s, i, i)]

UpperCase == "ABCDEFGHIJKLMNOPQRSTUVWXYZ"
LowerCase == "abcdefghijklmnopqrstuvwxyz"

lower_char(c) ==
    IF \E i \in 1..Len(UpperCase) : SubSeq(UpperCase, i, i) = c
    THEN LET i == CHOOSE i \in 1..Len(UpperCase) : SubSeq(UpperCase, i, i) = c
         IN  SubSeq(LowerCase, i, i)
    ELSE c

\* str.lower()
RECURSIVE str_lower(_)
str_lower(s) ==
    IF s = "" THEN "" ELSE lower_char(SubSeq(s, 1, 1)) \o str_lower(SubSeq(s, 2, Len(s)))

\* str.strip() of blanks
RECURSIVE str_strip(_)
str_strip(s) ==
    IF s = "" THEN ""
    ELSE IF SubSeq(s, 1, 1) = " " THEN str_strip(SubSeq(s, 2, Len(s)))
    ELSE IF SubSeq(s, Len(s), Len(s)) = " " THEN str_strip(SubSeq(s, 1, Len(s) - 1))
    ELSE s

\* "any(pattern in s for pattern in patterns)"
any_in(patterns, s) == \E p \in patterns : Contains(s, p)

\* the chain of parents of element i, nearest first, <body> left out
RECURSIVE parents(_, _)
parents(nodes, i) ==
    IF nodes[i].parent = 0 THEN <<>>
    ELSE <<nodes[i].parent>> \o parents(nodes, nodes[i].parent)

Range(s) == { s[i] : i \in DOMAIN s }

\* element.find_parent(attrs={'data-name': 'frame'})
has_frame_parent(nodes, i) ==
    \E a \in Range(parents(nodes, i)) : nodes[a].data_name = "frame"

ContentMinSize == 100
IconMaxSize == 24
MeaningfulAltLen == 10

\* "if width and height: w, h = int(width), int(height)": None when an
\* attribute is missing or int() raises ValueError
declared_size(img) ==
    IF img.width # "" /\ img.height # ""
    THEN LET w == int(chars(img.width))
             h == int(chars(img.height))
         IN  IF w # None /\ h # None THEN Some([w |-> Val(w), h |-> Val(h)]) ELSE None
    ELSE None

doc_image_patterns ==
    {"mintlify.s3", "/images/", "/screenshots/", "/docs/", "/assets/",
     "documentation", "tutorial", "guide", "example", "get-started"}

content_patterns == {"content", "article", "main", "documentation", "frame"}

\* "if w > 100 or h > 100"
size_is_content(size) == size.w > ContentMinSize \/ size.h > ContentMinSize

\* ContentParser._is_documentation_image
is_documentation_image(nodes, i) ==
    LET img == nodes[i]
        src_lower == str_lower(img.src)
        alt_text == str_strip(img.alt)
        size == declared_size(img)
    IN  IF Contains(src_lower, "codebase-indexing") THEN TRUE
        ELSE IF has_frame_parent(nodes, i) THEN TRUE
        ELSE IF alt_text # "" /\ Len(alt_text) > MeaningfulAltLen THEN TRUE
        ELSE IF Contains(src_lower, "app-logo.svg") THEN FALSE
        ELSE IF any_in(doc_image_patterns, src_lower) THEN TRUE
        ELSE IF size # None /\ size_is_content(Val(size)) THEN TRUE
        ELSE \E a \in Range(parents(nodes, i)) :
                 \E c \in Range(nodes[a].class) : any_in(content_patterns, str_lower(c))

explicit_icon_patterns == {"icon", "favicon"}

explicit_icon_url_patterns ==
    {"favicon", "/icons/", "icon.", "app-logo.svg", "data:image/svg+xml"}

\* ContentParser._is_ui_icon
is_ui_icon(nodes, i) ==
    LET img == nodes[i]
        size == declared_size(img)
    IN  IF is_documentation_image(nodes, i) THEN FALSE
        ELSE IF size # None /\ Val(size).w <= IconMaxSize /\ Val(size).h <= IconMaxSize
        THEN TRUE
        ELSE IF \E c \in Range(img.class) : any_in(explicit_icon_patterns, str_lower(c))
        THEN TRUE
        ELSE IF any_in(explicit_icon_url_patterns, str_lower(img.src)) THEN TRUE
        ELSE str_lower(img.alt) \in {"icon", "favicon"}

\* config.domain
domain == Host

\* "Convert relative URLs to absolute"
absolute_src(src) ==
    IF startswith(src, "/") THEN "https://" \o domain \o src
    ELSE IF ~(startswith(src, "http://") \/ startswith(src, "https://"))
    THEN "https://" \o domain \o "/" \o src
    ELSE src

EnhancedStyle ==
    "width: 80%; height: auto; margin: 20px auto; display: block; border: 1px solid #ccc;"

\* the body of the loop of process_images for a kept image
processed_image(img) ==
    LET src == absolute_src(img.src)
        alt == IF img.alt = "" THEN "Documentation Image" ELSE img.alt
    IN  [img EXCEPT
            !.src = src,
            !.alt = alt,
            !.loading = "lazy",
            !.style = IF \/ Contains(src, "codebase-indexing")
                         \/ Contains(src, "screenshot")
                         \/ Contains(str_lower(alt), "indicator")
                      THEN EnhancedStyle
                      ELSE IF @ = "" THEN "max-width: 100%; height: auto;" ELSE @]

\* the images fed to process_images: one <img> inside one <div>
ImageSources ==
    {"", "/ui/toolbar.png", "/images/app-logo.svg", "/images/a.png",
     "/x/codebase-indexing.png", "/icons/x.svg", "img/Guide.PNG"}
ImageAlts == {"", "Icon", "Index status"}
ImageSizes == {"", "24", "100", "101", "200px"}
ImageClasses == {<<>>, <<"nav-icon">>}
WrapperClasses == {<<>>, <<"prose">>, <<"main-content">>}

ImageInit ==
    /\ \E s \in ImageSources, a \in ImageAlts, w \in ImageSizes, h \in ImageSizes,
          c \in ImageClasses, wc \in WrapperClasses, dn \in {"", "frame"} :
         LET div == [Element("div", 0) EXCEPT !.class = wc, !.data_name = dn]
             img == [Element("img", 1) EXCEPT !.src = s, !.alt = a, !.width = w,
                                              !.height = h, !.class = c]
         IN  dom = [pc |-> "images", input |-> <<div, img>>, nodes |-> <<div, img>>,
                    alive |-> {1, 2}]
    /\ rec = [pc |-> "idle"]
    /\ IdleCrawler

\* ContentParser.process_images
ProcessImages ==
    /\ dom.pc = "images"
    /\ LET imgs == { i \in dom.alive : dom.nodes[i].tag = "img" }
           dropped == { i \in imgs : dom.nodes[i].src = "" \/ is_ui_icon(dom.nodes, i) }
       IN  dom' = [dom EXCEPT
               !.pc = "images_done",
               !.alive = @ \ dropped,
               !.nodes = [i \in DOMAIN @ |->
                            IF i \in imgs \ dropped THEN processed_image(@[i]) ELSE @[i]]]
    /\ UNCHANGED <<crawler_vars, pc, pages, deduped, pipeline, rec>>

ImageNext == ProcessImages

ImageSpec == ImageInit /\ [][ImageNext]_vars

\* an image with both dimensions declared, exactly one of them above 100
OneLargeDimension(img) ==
    /\ declared_size(img) # None
    /\ LET size == Val(declared_size(img))
       IN  (size.w > ContentMinSize) # (size.h > ContentMinSize)

\* no asset marker, no frame ancestor, alt text of at most 10 characters, no
\* documentation-path match, no content-class ancestor
NoOtherContentSignal(nodes, i) ==
    /\ ~Contains(str_lower(nodes[i].src), "codebase-indexing")
    /\ ~has_frame_parent(nodes, i)
    /\ Len(str_strip(nodes[i].alt)) <= MeaningfulAltLen
    /\ ~any_in(doc_image_patterns, str_lower(nodes[i].src))
    /\ \A a \in Range(parents(nodes, i)) :
         \A c \in Range(nodes[a].class) : ~any_in(content_patterns, str_lower(c))

\* a class containing "icon"
HasIconClass(img) == \E c \in Range(img.class) : Contains(str_lower(c), "icon")

\* C30: after process_images, an image with a source, exactly one declared
\* dimension above 100, no other content signal and an icon class has been
\* dropped as a UI icon.
C30_OneLargeDimensionDropped ==
    dom.pc = "images_done" =>
        \A i \in DOMAIN dom.input :
            ( /\ dom.input[i].tag = "img"
              /\ dom.input[i].src # ""
              /\ OneLargeDimension(dom.input[i])
              /\ NoOtherContentSignal(dom.input, i)
              /\ HasIconClass(dom.input[i]) ) => i \notin dom.alive

(***************************************************************************)
(* content_parser.py: remove_unwanted_elements.  Each stage walks the      *)
(* elements it found in document order and decomposes those its test      *)
(* accepts; decompose() takes the element and everything below it out of   *)
(* the tree.                                                               *)
(***************************************************************************)

\* element i and everything below it
Subtree(nodes, i) == {i} \cup { j \in DOMAIN nodes : i \in Range(parents(nodes, j)) }

\* the elements below element i that are still in the tree
descendants(nodes, alive, i) == (Subtree(nodes, i) \ {i}) \cap alive

\* element.get_text(strip=True): the stripped strings of the element and of
\* what is below it, joined without a separator
RECURSIVE text_from(_, _, _, _)
text_from(nodes, alive, i, j) ==
    IF j > Len(nodes) THEN ""
    ELSE (IF j \in Subtree(nodes, i) \cap alive THEN str_strip(nodes[j].text) ELSE "")
         \o text_from(nodes, alive, i, j + 1)

get_text(nodes, alive, i) == text_from(nodes, alive, i, i)

\* str.split(): the words of a string, as sequences of characters
words(s) == SelectSeq(split(chars(s), " "), LAMBDA w : w # <<>>)

\* element.find('img', src=lambda s: s and 'codebase-indexing' in s)
finds_asset_img(nodes, alive, i) ==
    \E j \in descendants(nodes, alive, i) :
        /\ nodes[j].tag = "img"
        /\ nodes[j].src # ""
        /\ Contains(nodes[j].src, "codebase-indexing")

Sel(kind, arg) == [kind |-> kind, arg |-> arg]

\* config.EXCLUDED_SELECTORS
EXCLUDED_SELECTORS ==
    <<Sel("tag", "nav"), Sel("tag", "header"), Sel("tag", "footer"),
      Sel("class", "sidebar"), Sel("class", "navigation"), Sel("class", "breadcrumb"),
      Sel("class", "toc"), Sel("class", "advertisement"), Sel("class", "promo"),
      Sel("class", "banner")>>

additional_selectors ==
    <<Sel("class", "sidebar"), Sel("class", "navigation"), Sel("class", "nav-menu"),
      Sel("class", "menu"), Sel("class", "header-nav"), Sel("class", "footer-nav"),
      Sel("class", "breadcrumb"), Sel("class", "pagination"), Sel("class", "search-box"),
      Sel("class", "search-form"), Sel("role", "navigation"), Sel("role", "banner"),
      Sel("role", "complementary"), Sel("aria-label*", "navigation"),
      Sel("aria-label*", "menu"), Sel("class", "docs-sidebar"), Sel("class", "docs-nav"),
      Sel("class", "table-of-contents"), Sel("class", "toc"),
      Sel("class", "nextra-sidebar"), Sel("class", "nextra-nav"),
      Sel("class", "nextra-toc"), Sel("class", "nextra-breadcrumb"), Sel("class", "nx-"),
      Sel("class*", "nextra"), Sel("class*", "sidebar"), Sel("class*", "navigation"),
      Sel("class*", "menu"), Sel("class", "docusaurus-"), Sel("class", "gitbook-"),
      Sel("class", "vuepress-"), Sel("aria-hidden:not-frame", "true"),
      Sel("class", "sr-only"), Sel("class", "visually-hidden")>>

\* the tags of unwanted_elements (the '<!--' entry removes comments, which the
\* document does not hold)
unwanted_elements == <<"script", "style", "noscript", "form", "input", "select", "textarea">>

\* r'.*ad.*|.*banner.*|.*promo.*' with re.I, searched in one attribute value
unwanted_pattern(value) == any_in({"ad", "banner", "promo"}, str_lower(value))

unwanted_attrs ==
    <<Sel("class~", ""), Sel("id~", ""), Sel("role", "banner"), Sel("role", "navigation"),
      Sel("role", "complementary")>>

removable_if_empty == <<"p", "div", "span", "section", "article", "aside">>

nav_text_patterns ==
    <<"Get started", "Getting Started", "get started",
      "Changelog", "changelog", "CHANGELOG",
      "Concepts", "concepts", "CONCEPTS",
      "Models", "models", "MODELS",
      "Cursor Documentation", "Documentation",
      "Guides", "guides", "GUIDES",
      "Downloads", "downloads", "DOWNLOADS",
      "Tools", "tools", "TOOLS",
      "Forum", "forum", "FORUM",
      "Support", "support", "SUPPORT",
      "API Reference", "Reference", "API",
      "Quick Start", "Quickstart", "quickstart",
      "Installation", "Install",
      "Configuration", "Config",
      "Troubleshooting", "FAQ",
      "Examples", "Tutorials",
      "Community", "Blog",
      "About", "Contact",
      "Privacy", "Terms",
      "Search", "Menu", "Navigation">>

\* soup.select(selector) / soup.find_all(attrs=attrs) on one element
matches(sel, e) ==
    CASE sel.kind = "tag" -> e.tag = sel.arg
      [] sel.kind = "class" -> sel.arg \in Range(e.class)
      [] sel.kind = "class*" -> \E c \in Range(e.class) : Contains(c, sel.arg)
      [] sel.kind = "role" -> e.role = sel.arg
      [] sel.kind = "aria-label*" -> Contains(e.aria_label, sel.arg)
      [] sel.kind = "aria-hidden:not-frame" ->
             e.aria_hidden = sel.arg /\ e.data_name # "frame"
      [] sel.kind = "class~" -> \E c \in Range(e.class) : unwanted_pattern(c)
      [] sel.kind = "id~" -> e.id # "" /\ unwanted_pattern(e.id)

\* the test of the first loop of _remove_navigation_text
is_navigation_text(text) ==
    /\ Len(text) <= 100
    /\ \/ text \in Range(nav_text_patterns)
       \/ /\ Len(words(text)) <= 3
          /\ \E w \in Range(words(text)) : \E p \in Range(nav_text_patterns) : chars(p) = w

\* the test of the second loop of _remove_navigation_text
is_navigation_menu(text) ==
    /\ Cardinality({ k \in DOMAIN nav_text_patterns :
                       Contains(str_lower(text), str_lower(nav_text_patterns[k])) }) >= 3
    /\ Len(text) < 500

\* does the loop of this stage decompose element i of the tree as it is now
decomposes(stage, sel, nodes, alive, i) ==
    LET e == nodes[i]
    IN  CASE stage = "excluded" -> matches(sel, e)
          [] stage = "additional" ->
                 /\ matches(sel, e)
                 /\ e.data_name # "frame"
                 /\ ~finds_asset_img(nodes, alive, i)
          [] stage = "tags" -> e.tag = sel
          [] stage = "buttons" ->
                 /\ e.tag = "button"
                 /\ ~(finds_asset_img(nodes, alive, i) \/ has_frame_parent(nodes, i))
          [] stage = "attrs" -> matches(sel, e)
          [] stage = "empty" ->
                 /\ e.tag = sel
                 /\ get_text(nodes, alive, i) = ""
                 /\ ~\E j \in descendants(nodes, alive, i) :
                        nodes[j].tag \in {"img", "video", "audio", "iframe"}
          [] stage = "navtext" ->
                 /\ e.tag \in {"div", "span", "p", "li", "a"}
                 /\ is_navigation_text(get_text(nodes, alive, i))
          [] stage = "navmenu" ->
                 /\ e.tag \in {"ul", "ol", "nav"}
                 /\ is_navigation_menu(get_text(nodes, alive, i))

\* one "for element in ...: element.decompose()" loop, from element i on
RECURSIVE sweep(_, _, _, _, _)
sweep(stage, sel, nodes, alive, i) ==
    IF i > Len(nodes) THEN alive
    ELSE IF i \in alive /\ decomposes(stage, sel, nodes, alive, i)
    THEN sweep(stage, sel, nodes, alive \ Subtree(nodes, i), i + 1)
    ELSE sweep(stage, sel, nodes, alive, i + 1)

\* "for selector in selectors: for element in soup.select(selector): ..."
RECURSIVE sweep_all(_, _, _, _)
sweep_all(stage, sels, nodes, alive) ==
    IF sels = <<>> THEN alive
    ELSE sweep_all(stage, Tail(sels), nodes, sweep(stage, Head(sels), nodes, alive, 1))

\* the documents fed to remove_unwanted_elements:
\*   <container> <frame data-name="frame"> text <button> text <img></button> </frame>
\*   </container> <ul>...</ul> <p>...</p>
AssetSrc == "/img/codebase-indexing.png"

Documents ==
    { <<[Element(ct, 0) EXCEPT !.class = cc],
        [Element(ft, 1) EXCEPT !.data_name = "frame", !.class = fc, !.aria_hidden = fh,
                               !.text = fx],
        [Element("button", 2) EXCEPT !.text = bx],
        [Element("img", 3) EXCEPT !.src = s],
        [Element("ul", 0) EXCEPT !.text = "Guides Tools Forum Blog"],
        [Element("p", 0) EXCEPT !.text = "Cursor indexes your codebase."]>> :
      ct \in {"div", "header", "form"}, cc \in {<<>>, <<"pagination">>},
      ft \in {"div", "button"}, fc \in {<<>>, <<"shadow">>, <<"menu">>},
      fh \in {"", "true"}, fx \in {"", "Models", "Indexing progress"},
      bx \in {"", "Copy"}, s \in {AssetSrc, "/img/plain.png"} }

CleanInit ==
    /\ \E d \in Documents :
         dom = [pc |-> "excluded", input |-> d, nodes |-> d, alive |-> DOMAIN d]
    /\ rec = [pc |-> "idle"]
    /\ IdleCrawler

CleanUnchanged == UNCHANGED <<crawler_vars, pc, pages, deduped, pipeline, rec>>

\* "for selector in self.config.EXCLUDED_SELECTORS"
RemoveExcluded ==
    /\ dom.pc = "excluded"
    /\ dom' = [dom EXCEPT !.pc = "additional",
                          !.alive = sweep_all("excluded", EXCLUDED_SELECTORS, dom.nodes, @)]
    /\ CleanUnchanged

\* "for selector in additional_selectors"
RemoveAdditional ==
    /\ dom.pc = "additional"
    /\ dom' = [dom EXCEPT !.pc = "tags",
                          !.alive = sweep_all("additional", additional_selectors, dom.nodes, @)]
    /\ CleanUnchanged

\* "for tag_name in unwanted_elements"
RemoveTags ==
    /\ dom.pc = "tags"
    /\ dom' = [dom EXCEPT !.pc = "buttons",
                          !.alive = sweep_all("tags", unwanted_elements, dom.nodes, @)]
    /\ CleanUnchanged

\* "for button in soup.find_all('button')"
RemoveButtons ==
    /\ dom.pc = "buttons"
    /\ dom' = [dom EXCEPT !.pc = "attrs",
                          !.alive = sweep("buttons", "button", dom.nodes, @, 1)]
    /\ CleanUnchanged

\* "for attrs in unwanted_attrs"
RemoveAttrs ==
    /\ dom.pc = "attrs"
    /\ dom' = [dom EXCEPT !.pc = "empty",
                          !.alive = sweep_all("attrs", unwanted_attrs, dom.nodes, @)]
    /\ CleanUnchanged

\* ContentParser._remove_empty_elements
RemoveEmptyElements ==
    /\ dom.pc = "empty"
    /\ dom' = [dom EXCEPT !.pc = "navtext",
                          !.alive = sweep_all("empty", removable_if_empty, dom.nodes, @)]
    /\ CleanUnchanged

\* ContentParser._remove_navigation_text
RemoveNavigationText ==
    /\ dom.pc = "navtext"
    /\ dom' = [dom EXCEPT !.pc = "cleaned",
                          !.alive = sweep("navmenu", "", dom.nodes,
                                          sweep("navtext", "", dom.nodes, @, 1), 1)]
    /\ CleanUnchanged

CleanNext ==
    \/ RemoveExcluded
    \/ RemoveAdditional
    \/ RemoveTags
    \/ RemoveButtons
    \/ RemoveAttrs
    \/ RemoveEmptyElements
    \/ RemoveNavigationText

CleanSpec == CleanInit /\ [][CleanNext]_vars

\* the elements of the input that carry data-name="frame" or contain an image
\* whose source holds codebase-indexing
Protected ==
    { i \in DOMAIN dom.input :
        \/ dom.input[i].data_name = "frame"
        \/ finds_asset_img(dom.input, DOMAIN dom.input, i) }

\* C21: at every stage of remove_unwanted_elements, every element of the
\* document that carries data-name="frame" or contains a codebase-indexing
\* image is still in the tree.
C21_ProtectedNeverRemoved == dom.pc # "idle" => Protected \subseteq dom.alive

====
